---------------------------- MODULE Spec2Model ----------------------------
(***************************************************************************)
(* Model of the moments-slackbot conversation orchestrator (src/src/bot.ts)*)
(* with the content-store client (src/src/github.ts) and the image         *)
(* pipeline (src/src/images.ts).                                           *)
(*                                                                         *)
(* Every inbound event (a message or a button activation) starts a task:   *)
(* one run of its async handler.  A task suspends at each network call     *)
(* (gateway, store, image transfer) and tasks interleave at those points;  *)
(* the code between two awaits is one atomic step.  Outbound chat messages *)
(* (say / chat.postMessage) are appended to the task's reply log in the    *)
(* step that issues them.                                                  *)
(*                                                                         *)
(* Texts and file contents are sequences of tokens: words, shortcodes,     *)
(* whitespace (" ", "NL", "NL2"), the entry separator "---", the dated     *)
(* header and image embeds.  Optional values are sequences of length <= 1. *)
(***************************************************************************)
EXTENDS Integers, Sequences, FiniteSets, TLC

\* ------------------------------------------------------------------ bounds
MaxEvents == 3
MaxInFlight == 2
MaxTime == 6

\* --------------------------------------------------------------- constants
AuthorizedUserId == "U_OWNER"
Users == {"U_OWNER", "U_OTHER"}

None == <<>>
Some(x) == <<x>>
IsSome(o) == Len(o) = 1
Get(o) == o[1]

\* ---------------------------------------------------------- Map<K,V> values
EmptyMap == [k \in {} |-> None]
MapHas(m, k) == k \in DOMAIN m
MapGet(m, k) == IF k \in DOMAIN m THEN Some(m[k]) ELSE None
MapSet(m, k, v) == [x \in (DOMAIN m) \cup {k} |-> IF x = k THEN v ELSE m[x]]
MapDelete(m, k) == [x \in (DOMAIN m) \ {k} |-> m[x]]

\* ------------------------------------------------------------------- texts
IsWs(tok) == tok \in {" ", "NL", "NL2"}

RECURSIVE TrimStart(_)
TrimStart(s) == IF s # <<>> /\ IsWs(Head(s)) THEN TrimStart(Tail(s)) ELSE s

RECURSIVE TrimEnd(_)
TrimEnd(s) ==
  IF s # <<>> /\ IsWs(s[Len(s)]) THEN TrimEnd(SubSeq(s, 1, Len(s) - 1)) ELSE s

Trim(s) == TrimEnd(TrimStart(s))

emojiMap == (":tada:" :> "E_tada")

convertSlackEmoji(text) ==
  [i \in 1..Len(text) |->
     IF text[i] \in DOMAIN emojiMap THEN emojiMap[text[i]] ELSE text[i]]

\* A join that puts nothing between the embeds.
JoinPlain(embeds) == embeds

RECURSIVE JoinBlank(_)
JoinBlank(embeds) ==
  IF Len(embeds) = 0 THEN <<>>
  ELSE IF Len(embeds) = 1 THEN <<embeds[1]>>
  ELSE <<embeds[1], "NL2">> \o JoinBlank(Tail(embeds))

\* A combine that drops the image embeds.
TextOnly(text, imageEmbeds) == text

combineTextAndImages(text, imageEmbeds) ==
  IF Len(imageEmbeds) = 0 THEN text
  ELSE IF text = <<>> THEN JoinBlank(imageEmbeds)
  ELSE text \o <<"NL2">> \o JoinBlank(imageEmbeds)

\* ------------------------------------------------------------ authorization
\* A guard that lets everyone through.
Everyone(userId) == TRUE

\* A guard that lets every known workspace user through.
AnyKnownUser(userId) == userId \in Users

\* isAuthorized: only the configured user.
isAuthorized(userId) == userId = AuthorizedUserId


\* ----------------------------------------------------------- content store
\* A dated file is a token sequence; its revision token is the blob hash of
\* its content (equal contents have equal tokens, different contents differ).
TodaySlug == "d0"
RecentSlugs == <<"d0", "d1">>
Slugs == {"d0", "d1"}

Sha(content) == <<"sha">> \o content

HeaderTok(slug) == IF slug = "d0" THEN "hdr_d0" ELSE "hdr_d1"

\* getFile: null on 404, else { content, sha }.
getFile(store, slug) ==
  IF slug \in DOMAIN store
  THEN Some([content |-> store[slug], sha |-> Sha(store[slug])])
  ELSE None

\* octokit.repos.createOrUpdateFileContents on one path: with a sha it is a
\* compare-and-swap on the blob hash (409 on mismatch); without one it
\* creates the file and is refused (422) when the file exists.
PutStatus(store, slug, shaOpt) ==
  IF slug \in DOMAIN store
  THEN IF shaOpt = None THEN "invalid"
       ELSE IF Get(shaOpt) = Sha(store[slug]) THEN "ok" ELSE "conflict"
  ELSE IF shaOpt = None THEN "ok" ELSE "invalid"

PutFile(store, slug, content, shaOpt) ==
  IF PutStatus(store, slug, shaOpt) = "ok" THEN MapSet(store, slug, content)
  ELSE store

\* An addMoment that always writes a fresh file body.
ReplacingContent(existing, slug, text) ==
  <<HeaderTok(slug), "NL2">> \o Trim(text) \o <<"NL">>

\* An addMoment that appends the new text right after the old one.
AppendedUnseparated(existing, slug, text) ==
  IF IsSome(existing)
  THEN TrimEnd(Get(existing).content) \o <<"NL2">> \o Trim(text) \o <<"NL">>
  ELSE <<HeaderTok(slug), "NL2">> \o Trim(text) \o <<"NL">>

\* addMoment: the new file body computed from what getFile returned.
AddMomentContent(existing, slug, text) ==
  IF IsSome(existing)
  THEN TrimEnd(Get(existing).content) \o <<"NL2", "---", "NL2">> \o Trim(text) \o <<"NL">>
  ELSE <<HeaderTok(slug), "NL2">> \o Trim(text) \o <<"NL">>

\* addMoment: params.sha is set only when the file was found.
AddMomentSha(existing) ==
  IF IsSome(existing) THEN Some(Get(existing).sha) ELSE None

\* updateMomentFile: the caller's sha goes to the store as it is.
UpdateMomentSha(sha) == Some(sha)

\* ------------------------------------------------------------------- state
VARIABLES
  pendingProposals,     \* Map<userId, PendingProposal>
  pendingUnclear,       \* Map<userId, PendingUnclear>
  pendingEdits,         \* Map<userId, PendingEdit>
  conversationContext,  \* Map<userId, ConversationContext>
  files,                \* the store's dated files: slug -> content
  images,               \* the store's image files: the set of written names
  now,                  \* Date.now(), in minutes
  tasks                 \* one record per inbound event, in arrival order

vars == <<pendingProposals, pendingUnclear, pendingEdits, conversationContext,
          files, images, now, tasks>>

maps == <<pendingProposals, pendingUnclear, pendingEdits, conversationContext>>

\* A handler run.  kind/user/text/attach/value are the event; pc is the await
\* the run is suspended at; the rest are the handler's locals.  btn, took,
\* made, gw, sr, sw, wrote and sent are bookkeeping for the properties:
\* btn  the task whose prompt message carries the clicked button,
\* took the creator task of the map entry this run found (0: none),
\* made whether this run stored an entry in the map its flow owns,
\* gw/sr/sw the gateway calls, store reads and store writes it issued,
\* wrote the write that landed, sent the sha it sent with an edit, outcome
\* the store's answer to that edit, reads the (slug, sha) pairs it fetched,
\* got the review the gateway returned to it, uploaded the embeds of the
\* images it stored, shown the file content it displayed, intent what the
\* classifier call came back with, asked the instruction it gave the edit
\* gateway, threw the gateway and dated-file calls that raised in it, xfer
\* what became of the transfer of each of its images,
\* prompt the interactive message it posted (its buttons and their value).
NewTask(kind, user) ==
  [kind |-> kind, user |-> user, pc |-> "done", text |-> <<>>, attach |-> <<>>,
   subtype |-> "",
   value |-> None, btn |-> 0, embeds |-> <<>>, ts |-> 0,
   img |-> "none", rev |-> "none", review |-> None, existing |-> None,
   via |-> "", tail |-> None, recent |-> <<>>, newImagePath |-> None,
   idx |-> 0, edit |-> None, ctx |-> None, prompt |-> None, replies |-> <<>>,
   took |-> 0, made |-> FALSE, gw |-> 0, sr |-> 0, sw |-> 0,
   wrote |-> None, sent |-> None, outcome |-> "", reads |-> <<>>,
   got |-> None, uploaded |-> <<>>, shown |-> None, intent |-> "", asked |-> None,
   threw |-> 0, xfer |-> <<>>]

Reply(kind, detail) == <<kind, detail>>

Say(t, kind, detail) == [t EXCEPT !.replies = Append(@, Reply(kind, detail))]

\* A finished run keeps its event and its bookkeeping, not its locals.
Finish(t) ==
  [t EXCEPT !.pc = "done", !.embeds = <<>>, !.rev = "none", !.text = <<>>,
            !.img = IF @ = "pending" THEN @ ELSE "none",
            !.review = None, !.existing = None, !.via = "", !.tail = None,
            !.recent = <<>>, !.newImagePath = None, !.idx = 0, !.edit = None,
            !.ctx = None, !.ts = 0]

Tasks == 1..Len(tasks)
At(i, pc) == i \in Tasks /\ tasks[i].pc = pc
SetTask(i, t) == tasks' = [tasks EXCEPT ![i] = t]
NextId == Len(tasks) + 1
InFlight == {i \in Tasks : tasks[i].pc # "done" \/ tasks[i].img = "pending"}
CanStart == Len(tasks) < MaxEvents /\ Cardinality(InFlight) < MaxInFlight

\* The initial store: no file yet, or today's and yesterday's files with one
\* published entry each.
InitStores ==
  { EmptyMap,
    ("d0" :> <<"hdr_d0", "NL2", "old0", "NL">>) @@ ("d1" :> <<"hdr_d1", "NL2", "old1", "NL">>) }

Init ==
  /\ pendingProposals = EmptyMap
  /\ pendingUnclear = EmptyMap
  /\ pendingEdits = EmptyMap
  /\ conversationContext = EmptyMap
  /\ files \in InitStores
  /\ images = {}
  /\ now = 0
  /\ tasks = <<>>


\* ----------------------------------------------------------------- images
SupportedMime(kind) == kind \in {"png", "jpg"}

\* extractImageFiles: the attachments of a supported image type, in order.
extractImageFiles(attach) == SelectSeq(attach, SupportedMime)

\* processMessageImages: `${dateSlug}-${timestamp}-${index}.${ext}` as an
\* embed, for the call's timestamp and the image's 1-based index.
ImgNames ==
  << <<"img_d0_t0_1", "img_d0_t0_2">>, <<"img_d0_t1_1", "img_d0_t1_2">>,
     <<"img_d0_t2_1", "img_d0_t2_2">>, <<"img_d0_t3_1", "img_d0_t3_2">>,
     <<"img_d0_t4_1", "img_d0_t4_2">>, <<"img_d0_t5_1", "img_d0_t5_2">>,
     <<"img_d0_t6_1", "img_d0_t6_2">>, <<"img_d0_t7_1", "img_d0_t7_2">>,
     <<"img_d0_t8_1", "img_d0_t8_2">> >>
ImgName(ts, index) == ImgNames[ts + 1][index]

\* What can become of one attachment's transfer.
TransferOutcomes == {"ok", "download_failed", "upload_failed"}

\* processMessageImages: the loop from image i on; an image whose download
\* throws is skipped, the others are pushed with their filename's embed.
RECURSIVE processMessageImages(_, _, _, _)
processMessageImages(ts, n, ok, i) ==
  IF i > n THEN <<>>
  ELSE (IF ok[i] = "download_failed" THEN <<>>
        ELSE << [index |-> i, markdownEmbed |-> ImgName(ts, i)] >>)
       \o processMessageImages(ts, n, ok, i + 1)

\* processAndUploadImages' loop: the embed of each image whose uploadImage
\* did not throw.
RECURSIVE UploadLoop(_, _)
UploadLoop(imgs, ok) ==
  IF imgs = <<>> THEN <<>>
  ELSE (IF ok[Head(imgs).index] = "upload_failed" THEN <<>>
        ELSE <<Head(imgs).markdownEmbed>>)
       \o UploadLoop(Tail(imgs), ok)

\* An image step that gives up the batch when one transfer fails.
AllOrNothing(ts, n, ok, i) ==
  IF \E k \in i..n : ok[k] # "ok" THEN <<>>
  ELSE UploadLoop(processMessageImages(ts, n, ok, i), ok)

\* processAndUploadImages: the embeds it returns for the transfer outcomes
\* ok of the message's n images.
EmbedsFrom(ts, n, ok, i) == UploadLoop(processMessageImages(ts, n, ok, i), ok)

\* ------------------------------------------------------------ conversation
ExpiryMinutes == 5

\* A test that never finds a context live.
NeverLive(ctxMap, userId, time) == FALSE

\* hasActiveConversation, the test: a context is live until more than five
\* minutes have passed since its timestamp.
ContextLive(ctxMap, userId, time) ==
  /\ MapHas(ctxMap, userId)
  /\ ~(time - ctxMap[userId].timestamp > ExpiryMinutes)

\* hasActiveConversation, the effect: an expired context is deleted.
ContextPurged(ctxMap, userId, time) ==
  IF MapHas(ctxMap, userId) /\ time - ctxMap[userId].timestamp > ExpiryMinutes
  THEN MapDelete(ctxMap, userId)
  ELSE ctxMap

\* ---------------------------------------------------------- fixed commands
\* A handler that knows no such command.
NoCommand(text) == FALSE

IsShowToday(text) == text # <<>> /\ Head(text) \in {"show today", "today"}
IsCraft(text) == text # <<>> /\ Head(text) = "help me write"
CraftIdea(text) == Trim(Tail(text))
IsHelp(text) == text = <<"help">>


\* ------------------------------------------------------------ publish flow
ErrMessages == {"e1", "e2"}

\* processAsMoment up to `await Promise.all([imagePromise, reviewPromise])`.
\* With neither text nor images nothing is awaited and the empty text goes
\* straight to publishAndNotify.
StartMoment(t, text, attach, time) ==
  IF text = <<>> /\ extractImageFiles(attach) = <<>>
  THEN [Say(t, "working", "review") EXCEPT
          !.pc = "add_read", !.text = <<>>, !.attach = attach, !.via = "notify"]
  ELSE [Say(t, "working", "review") EXCEPT
          !.pc = "moment", !.text = text, !.attach = attach, !.ts = time,
          !.img = IF extractImageFiles(attach) # <<>> THEN "pending" ELSE "done",
          !.rev = IF text # <<>> THEN "pending" ELSE "done",
          !.gw = @ + (IF text # <<>> THEN 1 ELSE 0)]

\* publishAndNotify / publishAndConfirm up to addMoment's `await getFile`.
StartPublish(t, fullText, via, tail) ==
  [t EXCEPT !.pc = "add_read", !.text = fullText, !.via = via, !.tail = tail]

\* A proposeSuggestion that stores the text and forgets the image embeds.
proposeWithoutImages(m, suggested, imageEmbeds, id) ==
  MapSet(m, AuthorizedUserId, [text |-> suggested, imageEmbeds |-> <<>>, id |-> id])

\* A proposeSuggestion that keeps a Proposal that is still waiting.
proposeIfFree(m, suggested, imageEmbeds, id) ==
  IF MapHas(m, AuthorizedUserId) THEN m
  ELSE MapSet(m, AuthorizedUserId, [text |-> suggested, imageEmbeds |-> imageEmbeds, id |-> id])

\* A proposeSuggestion that files the Proposal under the conversation.
proposePerChannel(m, suggested, imageEmbeds, id) ==
  MapSet(m, "D_CHANNEL", [text |-> suggested, imageEmbeds |-> imageEmbeds, id |-> id])

\* proposeSuggestion: what the principal's slot holds afterwards.
proposeSuggestion(m, suggested, imageEmbeds, id) ==
  MapSet(m, AuthorizedUserId, [text |-> suggested, imageEmbeds |-> imageEmbeds, id |-> id])

\* A catch that only logs.
Swallowed(t, m) == Finish(t)

\* A gateway or store call of run t raises.
Threw(t) == [t EXCEPT !.threw = @ + 1]

\* The catch of the flow a failed store or gateway call belongs to.
Caught(t, m) ==
  Finish(Say(t, IF t.via = "confirm" THEN "failed_to_publish"
                ELSE "something_went_wrong", m))

\* A flow that never notices that its images are missing.
NeverAllFailed(hasImages, imageEmbeds) == FALSE

\* processAsMoment's test that every image transfer failed.
AllFailed(hasImages, imageEmbeds) == hasImages /\ imageEmbeds = <<>>

\* processAsMoment after `await Promise.all(...)` resolved, for the run's
\* locals t.
AfterAll(i, t) ==
  LET hasImages == extractImageFiles(t.attach) # <<>>
      hasText == t.text # <<>>
      review == t.review
      publish == IsSome(review) /\ Get(review).action = "publish"
      allFailed == AllFailed(hasImages, t.embeds)
      proposed(extra) ==
        LET p == [Say(t, "suggestion", "") EXCEPT
                    !.made = TRUE,
                    !.prompt = Some([kind |-> "suggestion", value |-> Some(t.text)])]
        IN Finish(IF extra THEN Say(p, "images_dropped", "") ELSE p)
  IN IF allFailed /\ ~hasText
     THEN /\ SetTask(i, Finish(Say(t, "couldnt_process_images", "")))
          /\ UNCHANGED pendingProposals
     ELSE IF allFailed /\ publish
     THEN /\ SetTask(i, StartPublish(t, Get(review).text, "notify",
                                     Some(Reply("images_dropped_published", ""))))
          /\ UNCHANGED pendingProposals
     ELSE IF allFailed /\ IsSome(review)
     THEN /\ pendingProposals' =
               proposeSuggestion(pendingProposals, Get(review).text, <<>>, i)
          /\ SetTask(i, proposed(TRUE))
     ELSE IF allFailed
     THEN /\ SetTask(i, Finish(t))
          /\ UNCHANGED pendingProposals
     ELSE IF ~hasText
     THEN /\ SetTask(i, StartPublish(t, JoinBlank(t.embeds), "notify", None))
          /\ UNCHANGED pendingProposals
     ELSE IF publish
     THEN /\ SetTask(i, StartPublish(t, combineTextAndImages(Get(review).text, t.embeds),
                                     "notify", None))
          /\ UNCHANGED pendingProposals
     ELSE /\ pendingProposals' =
               proposeSuggestion(pendingProposals, Get(review).text, t.embeds, i)
          /\ SetTask(i, proposed(FALSE))

\* handleNewMoment, image-only, after processAndUploadImages returned.
AfterImageOnly(i, t) ==
  IF t.embeds = <<>>
  THEN SetTask(i, Finish(Say(t, "couldnt_process_images", "")))
  ELSE SetTask(i, StartPublish(t, JoinBlank(t.embeds), "notify", None))

\* processMessageImages + the upload loop of processAndUploadImages return,
\* for a run whose image transfer is outstanding (also after its flow has
\* failed); the flow goes on when nothing else is awaited.
ImagesDone(i, ok) ==
  /\ i \in Tasks
  /\ tasks[i].img = "pending"
  /\ LET t == tasks[i]
         n == Len(extractImageFiles(t.attach))
         embeds == EmbedsFrom(t.ts, n, ok, 1)
         t1 == [t EXCEPT !.img = "done", !.embeds = embeds, !.uploaded = embeds,
                         !.xfer = ok]
     IN /\ DOMAIN ok = 1..n
        /\ images' = images \cup {embeds[k] : k \in 1..Len(embeds)}
        /\ IF t.pc = "moment" /\ t.rev = "done"
           THEN AfterAll(i, t1)
           ELSE IF t.pc = "imgonly"
           THEN AfterImageOnly(i, t1) /\ UNCHANGED pendingProposals
           ELSE IF t.pc = "done"
           THEN SetTask(i, Finish(t1)) /\ UNCHANGED pendingProposals
           ELSE SetTask(i, t1) /\ UNCHANGED pendingProposals
  /\ UNCHANGED <<pendingUnclear, pendingEdits, conversationContext, files, now>>

\* reviewMoment resolves with r; the flow goes on when the images are in.
ReviewReturns(i, r) ==
  /\ At(i, "moment")
  /\ tasks[i].rev = "pending"
  /\ LET t1 == [tasks[i] EXCEPT !.rev = "done", !.review = Some(r), !.got = Some(r)]
     IN IF t1.img = "done"
        THEN AfterAll(i, t1)
        ELSE SetTask(i, t1) /\ UNCHANGED pendingProposals
  /\ UNCHANGED <<pendingUnclear, pendingEdits, conversationContext, files, images, now>>

\* reviewMoment rejects: Promise.all rejects at once and the flow's catch
\* reports; an outstanding image transfer goes on.
ReviewThrows(i, m) ==
  /\ At(i, "moment")
  /\ tasks[i].rev = "pending"
  /\ SetTask(i, Caught(Threw(tasks[i]), m))
  /\ UNCHANGED <<maps, files, images, now>>

\* addMoment: `await getFile(slug)` returns, or throws (fault).
AddRead(i, fault, m) ==
  /\ At(i, "add_read")
  /\ LET t == [tasks[i] EXCEPT !.sr = @ + 1]
     IN IF fault
        THEN SetTask(i, Caught(Threw(t), m))
        ELSE SetTask(i, [t EXCEPT !.pc = "add_write",
                                  !.existing = getFile(files, TodaySlug)])
  /\ UNCHANGED <<maps, files, images, now>>

\* addMoment: `await createOrUpdateFileContents(params)` lands, then the
\* caller's confirmation; or it throws (a refusal by the store, or fault).
AddWrite(i, fault, m) ==
  /\ At(i, "add_write")
  /\ LET t == [tasks[i] EXCEPT !.sw = @ + 1]
         content == AddMomentContent(t.existing, TodaySlug, t.text)
         sha == AddMomentSha(t.existing)
         ok == ~fault /\ PutStatus(files, TodaySlug, sha) = "ok"
         said == Say(t, "published", IF IsSome(t.existing) THEN "Added to" ELSE "Created")
         done == [said EXCEPT
                    !.replies = IF IsSome(t.tail) THEN Append(@, Get(t.tail)) ELSE @,
                    !.wrote = Some([slug |-> TodaySlug, entry |-> Trim(t.text)])]
     IN IF ok
        THEN /\ files' = PutFile(files, TodaySlug, content, sha)
             /\ SetTask(i, Finish(done))
        ELSE /\ files' = files
             /\ SetTask(i, Caught(Threw(t), m))
  /\ UNCHANGED <<maps, images, now>>


\* -------------------------------------------------------- instruction flow
\* A handleInstruction that goes to the store without waiting for an upload.
StartWithoutUpload(t, text, attach, time) ==
  [Say(t, "working", "request") EXCEPT
     !.text = text, !.attach = attach, !.ts = time, !.recent = <<>>, !.idx = 1,
     !.pc = "fetch"]

\* handleInstruction up to its first await on the store or the image pipeline.
StartInstruction(t, text, attach, time) ==
  [Say(t, "working", "request") EXCEPT
     !.text = text, !.attach = attach, !.ts = time, !.recent = <<>>, !.idx = 1,
     !.pc = IF extractImageFiles(attach) # <<>> THEN "instr_img" ELSE "fetch"]

\* handleFollowUp up to its first await: the context is taken and deleted.
StartFollowUp(t, ctx, reply, attach, time) ==
  [Say(t, "working", "request") EXCEPT
     !.text = reply, !.attach = attach, !.ts = time, !.recent = <<>>, !.idx = 1,
     !.ctx = Some(ctx), !.newImagePath = ctx.newImagePath,
     !.pc = IF extractImageFiles(attach) # <<>> /\ ctx.newImagePath = None
            THEN "instr_img" ELSE "fetch"]

\* A follow-up that leaves the context where it found it.
KeptContext(ctxMap, userId) == ctxMap

\* handleFollowUp: `conversationContext.delete(userId)` right after the get.
TakenContext(ctxMap, userId) == MapDelete(ctxMap, userId)

\* --------------------------------------------------------- message handler
\* app.message up to the first await of the flow it routes to.
Message(u, raw, attach, subtype) ==
  /\ CanStart
  /\ LET hasText == raw # <<>>
         hasImages == extractImageFiles(attach) # <<>>
         text == Trim(raw)
         t0 == [NewTask("message", u) EXCEPT !.text = raw, !.attach = attach,
                                             !.subtype = subtype]
         ctxMap == ContextPurged(conversationContext, u, now)
         add(t) == tasks' = Append(tasks, t)
     IN IF subtype \notin {"", "file_share"} \/ (~hasText /\ ~hasImages)
        THEN add(t0) /\ UNCHANGED maps
        ELSE IF ~isAuthorized(u)
        THEN add(Say(t0, "unauthorized", "")) /\ UNCHANGED maps
        ELSE IF IsShowToday(text)
        THEN add([t0 EXCEPT !.pc = "show_read"]) /\ UNCHANGED maps
        ELSE IF IsCraft(text) /\ CraftIdea(text) = <<>>
        THEN add(Say(t0, "tell_me_topic", "")) /\ UNCHANGED maps
        ELSE IF IsCraft(text)
        THEN /\ add([Say(t0, "working", "craft") EXCEPT
                       !.pc = "craft", !.text = convertSlackEmoji(CraftIdea(text)),
                       !.gw = @ + 1])
             /\ UNCHANGED maps
        ELSE IF IsHelp(text)
        THEN add(Say(t0, "help", "")) /\ UNCHANGED maps
        ELSE IF text # <<>> /\ ContextLive(conversationContext, u, now)
        THEN /\ conversationContext' = TakenContext(conversationContext, u)
             /\ add([StartFollowUp(t0, conversationContext[u], convertSlackEmoji(text),
                                   attach, now)
                       EXCEPT !.took = conversationContext[u].id])
             /\ UNCHANGED <<pendingProposals, pendingUnclear, pendingEdits>>
        ELSE /\ conversationContext' = (IF text # <<>> THEN ctxMap ELSE conversationContext)
             /\ UNCHANGED <<pendingProposals, pendingUnclear, pendingEdits>>
             /\ IF text = <<>> /\ hasImages
                THEN add([Say(t0, "working", "images") EXCEPT
                            !.pc = "imgonly", !.text = <<>>, !.ts = now, !.img = "pending"])
                ELSE add([t0 EXCEPT !.pc = "classify", !.text = convertSlackEmoji(text),
                                    !.gw = @ + 1])
  /\ UNCHANGED <<files, images, now>>

\* A catch that asks the principal when the classifier fails.
FailsAsUnclear(intent) ==
  IF intent \in {"moment", "instruction"} THEN intent ELSE "unclear"

\* handleNewMoment's routing of the classifier's outcome: its catch lets a
\* failed call ("throw": rejected, empty, or an invalid label) fall through
\* to processAsMoment.
ClassifiedAs(intent) ==
  IF intent \in {"instruction", "unclear"} THEN intent ELSE "moment"

\* An UnclearMessage that forgets the message's attachments.
UnclearWithoutMessage(text, message, id) ==
  [text |-> text, message |-> <<>>, id |-> id]

\* The UnclearMessage stored for an ambiguous message: `{ text, message }`.
NewUnclear(text, message, id) ==
  [text |-> text, message |-> message, id |-> id]

\* handleNewMoment: classifyIntent resolves with an intent, or rejects
\* ("throw"), which defaults to a moment.
ClassifyReturns(i, intent) ==
  /\ At(i, "classify")
  /\ LET t == [tasks[i] EXCEPT !.intent = intent]
     IN IF ClassifiedAs(intent) = "instruction"
        THEN /\ SetTask(i, StartInstruction(t, t.text, t.attach, now))
             /\ UNCHANGED pendingUnclear
        ELSE IF ClassifiedAs(intent) = "unclear"
        THEN /\ pendingUnclear' = MapSet(pendingUnclear, AuthorizedUserId,
                                         NewUnclear(t.text, t.attach, i))
             /\ SetTask(i, Finish([Say(t, "not_sure", "") EXCEPT
                                     !.made = TRUE,
                                     !.prompt = Some([kind |-> "unclear", value |-> None])]))
        ELSE /\ SetTask(i, StartMoment(t, t.text, t.attach, now))
             /\ UNCHANGED pendingUnclear
  /\ UNCHANGED <<pendingProposals, pendingEdits, conversationContext, files, images, now>>


\* handleNewMoment: classifyIntent resolves with instruction or unclear and
\* the first say of that branch rejects (handleInstruction's progress note,
\* which is outside its try, or the prompt of the ambiguous branch, after
\* pendingUnclear.set): the rejection reaches handleNewMoment's catch around
\* the classification, which logs it, and processAsMoment follows.
ClassifySayThrows(i, intent) ==
  /\ At(i, "classify")
  /\ ClassifiedAs(intent) \in {"instruction", "unclear"}
  /\ LET t == Threw([tasks[i] EXCEPT !.intent = intent])
     IN IF ClassifiedAs(intent) = "unclear"
        THEN /\ pendingUnclear' = MapSet(pendingUnclear, AuthorizedUserId,
                                         NewUnclear(t.text, t.attach, i))
             /\ SetTask(i, StartMoment([t EXCEPT !.made = TRUE], t.text, t.attach, now))
        ELSE /\ SetTask(i, StartMoment(t, t.text, t.attach, now))
             /\ UNCHANGED pendingUnclear
  /\ UNCHANGED <<pendingProposals, pendingEdits, conversationContext, files, images, now>>

\* handleFollowUp's combinedInstruction: the original request, the bot's
\* question and the reply, labelled.
CombinedInstruction(ctx, reply) ==
  <<"Original request:">> \o ctx.originalInstruction
    \o <<"Bot asked:", ctx.clarificationQuestion, "User replied:">> \o reply

\* The instruction executeInstruction is called with.
Instruction(t) ==
  IF IsSome(t.ctx) THEN CombinedInstruction(Get(t.ctx), t.text) ELSE t.text

\* getRecentMoments: one `await getFile(slug)` of the loop returns or throws;
\* after the last one the flow goes on to executeInstruction.
\* A flow that takes an empty window for one it can edit.
NeverNothing(recent) == FALSE

\* recentMoments.length === 0
NothingToEdit(recent) == recent = <<>>

FetchStep(i, fault, m) ==
  /\ At(i, "fetch")
  /\ LET t == [tasks[i] EXCEPT !.sr = @ + 1]
         slug == RecentSlugs[t.idx]
         file == getFile(files, slug)
         recent == IF IsSome(file)
                   THEN Append(t.recent, [dateSlug |-> slug, content |-> Get(file).content,
                                          sha |-> Get(file).sha])
                   ELSE t.recent
         reads == IF IsSome(file)
                  THEN Append(t.reads, [dateSlug |-> slug, sha |-> Get(file).sha])
                  ELSE t.reads
     IN IF fault
        THEN SetTask(i, Caught(Threw(t), m))
        ELSE IF t.idx < Len(RecentSlugs)
        THEN SetTask(i, [t EXCEPT !.idx = @ + 1, !.recent = recent, !.reads = reads])
        ELSE IF NothingToEdit(recent)
        THEN SetTask(i, Finish(Say(t, "no_recent_moments", "")))
        ELSE SetTask(i, [t EXCEPT !.pc = "exec", !.recent = recent, !.reads = reads,
                                  !.gw = @ + 1, !.asked = Some(Instruction(t))])
  /\ UNCHANGED <<maps, files, images, now>>

\* handleInstruction / handleFollowUp: processAndUploadImages returned.
InstrImagesDone(i, ok) ==
  /\ At(i, "instr_img")
  /\ LET t == [tasks[i] EXCEPT !.xfer = ok]
         n == Len(extractImageFiles(t.attach))
         embeds == EmbedsFrom(t.ts, n, ok, 1)
     IN /\ DOMAIN ok = 1..n
        /\ images' = images \cup {embeds[k] : k \in 1..Len(embeds)}
        /\ IF embeds # <<>>
           THEN SetTask(i, [t EXCEPT !.pc = "fetch", !.newImagePath = Some(embeds[1]),
                                     !.uploaded = embeds])
           ELSE IF IsSome(t.ctx)
           THEN SetTask(i, [t EXCEPT !.pc = "fetch"])
           ELSE SetTask(i, Finish(Say(t, "couldnt_process_image", "")))
  /\ UNCHANGED <<maps, files, now>>

\* A lookup that settles for the most recent file when the day is not there.
AnyTarget(recent, dateSlug) ==
  LET hits == SelectSeq(recent, LAMBDA f : f.dateSlug = dateSlug)
  IN IF hits = <<>> THEN Some(recent[1]) ELSE Some(hits[1])

\* The file of recentMoments the gateway's dateSlug names, if any.
FindTarget(recent, dateSlug) ==
  LET hits == SelectSeq(recent, LAMBDA f : f.dateSlug = dateSlug)
  IN IF hits = <<>> THEN None ELSE Some(hits[1])

\* A PendingEdit that records the sha of its own content.
EditWithOwnSha(res, targetFile, id) ==
  [dateSlug |-> res.dateSlug, updatedContent |-> res.updatedContent,
   sha |-> Sha(res.updatedContent), explanation |-> "expl", id |-> id]

\* The PendingEdit stored for an edit result and its target file.
NewPendingEdit(res, targetFile, id) ==
  [dateSlug |-> res.dateSlug, updatedContent |-> res.updatedContent,
   sha |-> targetFile.sha, explanation |-> "expl", id |-> id]

\* A follow-up that stores the reply as the instruction to come back to.
ReplyAsOriginal(t) == t.text

\* The originalInstruction a flow stores with a clarification question:
\* handleInstruction its text, handleFollowUp the one of the context it took.
OriginalOf(t) == IF IsSome(t.ctx) THEN Get(t.ctx).originalInstruction ELSE t.text

\* The key a flow stores under: handleInstruction config.authorizedUserId,
\* handleFollowUp the sender's userId.
FlowKey(t) == IF IsSome(t.ctx) THEN t.user ELSE AuthorizedUserId

\* executeInstruction resolves with res.
ExecReturns(i, res) ==
  /\ At(i, "exec")
  /\ LET t == tasks[i]
         target == FindTarget(t.recent, res.dateSlug)
         original == OriginalOf(t)
         message == IF IsSome(t.ctx) THEN Get(t.ctx).originalMessage ELSE t.attach
     IN IF res.action = "unsupported"
        THEN /\ SetTask(i, Finish(Say(t, "unsupported", res.reason)))
             /\ UNCHANGED <<pendingEdits, conversationContext>>
        ELSE IF res.action = "unclear"
        THEN /\ conversationContext' =
                  MapSet(conversationContext, FlowKey(t),
                         [originalInstruction |-> original, originalMessage |-> message,
                          clarificationQuestion |-> res.clarification,
                          newImagePath |-> t.newImagePath, timestamp |-> now, id |-> i])
             /\ SetTask(i, Finish([Say(t, "question", res.clarification) EXCEPT
                                     !.made = TRUE]))
             /\ UNCHANGED pendingEdits
        ELSE IF target = None
        THEN /\ SetTask(i, Finish(Say(t, "couldnt_find_file", res.dateSlug)))
             /\ UNCHANGED <<pendingEdits, conversationContext>>
        ELSE /\ pendingEdits' =
                  MapSet(pendingEdits, FlowKey(t), NewPendingEdit(res, Get(target), i))
             /\ SetTask(i, Finish([Say(t, "proposed_edit", res.dateSlug) EXCEPT
                                     !.made = TRUE,
                                     !.prompt = Some([kind |-> "edit", value |-> None])]))
             /\ UNCHANGED conversationContext
  /\ UNCHANGED <<pendingProposals, pendingUnclear, files, images, now>>

\* executeInstruction rejects: the flow's catch reports.
ExecThrows(i, m) ==
  /\ At(i, "exec")
  /\ SetTask(i, Caught(Threw(tasks[i]), m))
  /\ UNCHANGED <<maps, files, images, now>>


\* handleShowToday: getTodayEntries returns (`file?.content || null`) or throws.
ShowReturns(i, fault, m) ==
  /\ At(i, "show_read")
  /\ LET t == [tasks[i] EXCEPT !.sr = @ + 1]
         file == getFile(files, TodaySlug)
     IN IF fault
        THEN SetTask(i, Finish(Say(Threw(t), "couldnt_fetch_today", m)))
        ELSE IF file = None \/ Get(file).content = <<>>
        THEN SetTask(i, Finish(Say(t, "no_moments_yet", TodaySlug)))
        ELSE SetTask(i, Finish([Say(t, "moments_for", TodaySlug) EXCEPT
                                  !.shown = Some(Get(file).content)]))
  /\ UNCHANGED <<maps, files, images, now>>

\* A proposeCrafted that only posts the prompt.
proposeNothing(m, crafted, id) == m

\* proposeCrafted: what the principal's slot holds afterwards.
proposeCrafted(m, crafted, id) ==
  MapSet(m, AuthorizedUserId, [text |-> crafted, imageEmbeds |-> <<>>, id |-> id])

\* handleCraft: craftMoment resolves and the crafted text is proposed.
CraftReturns(i, crafted) ==
  /\ At(i, "craft")
  /\ pendingProposals' = proposeCrafted(pendingProposals, crafted, i)
  /\ SetTask(i, Finish([Say(tasks[i], "crafted", "") EXCEPT
                          !.made = TRUE,
                          !.prompt = Some([kind |-> "crafted", value |-> None])]))
  /\ UNCHANGED <<pendingUnclear, pendingEdits, conversationContext, files, images, now>>

\* handleCraft: craftMoment rejects and the flow's catch reports.
CraftThrows(i, m) ==
  /\ At(i, "craft")
  /\ SetTask(i, Caught(Threw(tasks[i]), m))
  /\ UNCHANGED <<maps, files, images, now>>

\* Time passes: a minute on the clock the handlers read.
Tick ==
  /\ now < MaxTime
  /\ now' = now + 1
  /\ UNCHANGED <<maps, files, images, tasks>>

\* ----------------------------------------------------------------- buttons
\* The buttons each interactive message carries.
ButtonsOf(kind) ==
  CASE kind = "suggestion" -> {"accept_suggestion", "publish_original", "reject_suggestion"}
    [] kind = "crafted" -> {"accept_suggestion", "reject_suggestion"}
    [] kind = "unclear" -> {"treat_as_moment", "treat_as_instruction"}
    [] kind = "edit" -> {"approve_edit", "reject_edit"}
    [] OTHER -> {}

\* Task b has posted a message that carries the button.
HasButton(b, actionId) ==
  /\ b \in Tasks
  /\ IsSome(tasks[b].prompt)
  /\ actionId \in ButtonsOf(Get(tasks[b].prompt).kind)

Click(actionId, u, b) ==
  [NewTask(actionId, u) EXCEPT
     !.btn = b,
     !.value = IF actionId = "publish_original" THEN Get(tasks[b].prompt).value ELSE None]

\* A resolve that leaves the UnclearMessage in its slot.
KeptUnclear(m, userId) == m

\* An accept that leaves the Proposal in its slot.
KeptProposals(m, userId) == m

\* An approve that leaves the PendingEdit in its slot.
KeptEdits(m, userId) == m

\* What a handler leaves in its map once it has found (or not) its entry.
AcceptedProposals(m, userId) == MapDelete(m, userId)
RejectedProposals(m, userId) == MapDelete(m, userId)
OriginalProposals(m, userId) == MapDelete(m, userId)
ResolvedUnclear(m, userId) == MapDelete(m, userId)
ApprovedEdits(m, userId) == MapDelete(m, userId)
RejectedEdits(m, userId) == MapDelete(m, userId)

\* app.action("accept_suggestion") up to addMoment's first await.
AcceptSuggestion(u, b) ==
  /\ CanStart
  /\ HasButton(b, "accept_suggestion")
  /\ LET t0 == Click("accept_suggestion", u, b)
         proposal == MapGet(pendingProposals, u)
     IN IF ~isAuthorized(u)
        THEN tasks' = Append(tasks, t0) /\ UNCHANGED pendingProposals
        ELSE IF proposal = None
        THEN /\ tasks' = Append(tasks, Say(t0, "no_pending_proposal", ""))
             /\ UNCHANGED pendingProposals
        ELSE /\ pendingProposals' = AcceptedProposals(pendingProposals, u)
             /\ tasks' = Append(tasks,
                  StartPublish([t0 EXCEPT !.took = Get(proposal).id],
                               combineTextAndImages(Get(proposal).text,
                                                    Get(proposal).imageEmbeds),
                               "confirm", None))
  /\ UNCHANGED <<pendingUnclear, pendingEdits, conversationContext, files, images, now>>

\* app.action("reject_suggestion").
RejectSuggestion(u, b) ==
  /\ CanStart
  /\ HasButton(b, "reject_suggestion")
  /\ LET t0 == Click("reject_suggestion", u, b)
     IN IF ~isAuthorized(u)
        THEN tasks' = Append(tasks, t0) /\ UNCHANGED pendingProposals
        ELSE /\ pendingProposals' = RejectedProposals(pendingProposals, u)
             /\ tasks' = Append(tasks,
                  Say([t0 EXCEPT !.took = IF MapHas(pendingProposals, u)
                                          THEN pendingProposals[u].id ELSE 0],
                      "no_worries", ""))
  /\ UNCHANGED <<pendingUnclear, pendingEdits, conversationContext, files, images, now>>

\* The image embeds publish_original takes from the slot: `proposal?.imageEmbeds || []`.
OriginalEmbeds(proposal) ==
  IF IsSome(proposal) THEN Get(proposal).imageEmbeds ELSE <<>>

\* app.action("publish_original") up to addMoment's first await.
PublishOriginal(u, b) ==
  /\ CanStart
  /\ HasButton(b, "publish_original")
  /\ LET t0 == Click("publish_original", u, b)
         originalText == t0.value
         proposal == MapGet(pendingProposals, u)
     IN IF ~isAuthorized(u)
        THEN tasks' = Append(tasks, t0) /\ UNCHANGED pendingProposals
        ELSE IF originalText = None \/ Get(originalText) = <<>>
        THEN /\ tasks' = Append(tasks, Say(t0, "couldnt_find_original_text", ""))
             /\ UNCHANGED pendingProposals
        ELSE /\ pendingProposals' = OriginalProposals(pendingProposals, u)
             /\ tasks' = Append(tasks,
                  StartPublish([t0 EXCEPT !.took = IF IsSome(proposal)
                                                   THEN Get(proposal).id ELSE 0],
                               combineTextAndImages(convertSlackEmoji(Get(originalText)),
                                                    OriginalEmbeds(proposal)),
                               "confirm", None))
  /\ UNCHANGED <<pendingUnclear, pendingEdits, conversationContext, files, images, now>>

\* app.action("treat_as_moment") up to processAsMoment's Promise.all.
TreatAsMoment(u, b) ==
  /\ CanStart
  /\ HasButton(b, "treat_as_moment")
  /\ LET t0 == Click("treat_as_moment", u, b)
         pending == MapGet(pendingUnclear, u)
     IN IF ~isAuthorized(u)
        THEN tasks' = Append(tasks, t0) /\ UNCHANGED pendingUnclear
        ELSE IF pending = None
        THEN /\ tasks' = Append(tasks, Say(t0, "couldnt_find_original_message", ""))
             /\ UNCHANGED pendingUnclear
        ELSE /\ pendingUnclear' = ResolvedUnclear(pendingUnclear, u)
             /\ tasks' = Append(tasks,
                  StartMoment([t0 EXCEPT !.took = Get(pending).id],
                              Get(pending).text, Get(pending).message, now))
  /\ UNCHANGED <<pendingProposals, pendingEdits, conversationContext, files, images, now>>

\* app.action("treat_as_instruction") up to handleInstruction's first await.
TreatAsInstruction(u, b) ==
  /\ CanStart
  /\ HasButton(b, "treat_as_instruction")
  /\ LET t0 == Click("treat_as_instruction", u, b)
         pending == MapGet(pendingUnclear, u)
     IN IF ~isAuthorized(u)
        THEN tasks' = Append(tasks, t0) /\ UNCHANGED pendingUnclear
        ELSE IF pending = None
        THEN /\ tasks' = Append(tasks, Say(t0, "couldnt_find_original_message", ""))
             /\ pendingUnclear' = ResolvedUnclear(pendingUnclear, u)
        ELSE /\ pendingUnclear' = ResolvedUnclear(pendingUnclear, u)
             /\ tasks' = Append(tasks,
                  StartInstruction([t0 EXCEPT !.took = Get(pending).id],
                                   Get(pending).text, Get(pending).message, now))
  /\ UNCHANGED <<pendingProposals, pendingEdits, conversationContext, files, images, now>>

\* An approve_edit that would fetch the file's sha again before writing.
FreshSha(edit, store) ==
  IF edit.dateSlug \in DOMAIN store THEN Sha(store[edit.dateSlug]) ELSE edit.sha

\* The sha approve_edit hands to updateMomentFile: the stored one.
ApproveSha(edit, store) == edit.sha

\* An approve_edit that clears the user's Proposal as well.
ClearedByApprove(m, userId) == MapDelete(m, userId)

\* approve_edit names no map but pendingEdits: pendingProposals after it.
ProposalsAfterApprove(m, userId) == m

\* app.action("approve_edit") up to `await updateMomentFile(...)`.
ApproveEdit(u, b) ==
  /\ CanStart
  /\ HasButton(b, "approve_edit")
  /\ LET t0 == Click("approve_edit", u, b)
         edit == MapGet(pendingEdits, u)
     IN IF ~isAuthorized(u)
        THEN tasks' = Append(tasks, t0) /\ UNCHANGED pendingEdits
        ELSE IF edit = None
        THEN /\ tasks' = Append(tasks, Say(t0, "no_pending_edit", ""))
             /\ UNCHANGED pendingEdits
        ELSE /\ pendingEdits' = ApprovedEdits(pendingEdits, u)
             /\ tasks' = Append(tasks, [t0 EXCEPT !.pc = "edit_write", !.edit = edit,
                                                  !.took = Get(edit).id])
  /\ pendingProposals' = (IF isAuthorized(u) THEN ProposalsAfterApprove(pendingProposals, u)
                          ELSE pendingProposals)
  /\ UNCHANGED <<pendingUnclear, conversationContext, files, images, now>>

\* An updateMomentFile that tidies the text up as addMoment does.
TrimmedContent(edit) == TrimEnd(edit.updatedContent) \o <<"NL">>

\* updateMomentFile: the file body is newContent as it was passed.
EditContent(edit) == edit.updatedContent

\* approve_edit's catch: `Failed to apply edit: ${err.message}`, whatever
\* made the write fail.
EditFailureReply(status, m) == Reply("failed_to_apply_edit", m)

\* approve_edit: updateMomentFile's one createOrUpdateFileContents lands or
\* throws (a refusal by the store, or fault), then the reply.
EditWrite(i, fault, m) ==
  /\ At(i, "edit_write")
  /\ LET t == [tasks[i] EXCEPT !.sw = @ + 1]
         edit == Get(t.edit)
         sha == UpdateMomentSha(ApproveSha(edit, files))
         status == IF fault THEN "error" ELSE PutStatus(files, edit.dateSlug, sha)
         r == [t EXCEPT !.sent = Some([dateSlug |-> edit.dateSlug, sha |-> Get(sha)]),
                        !.outcome = status]
     IN IF status = "ok"
        THEN /\ files' = PutFile(files, edit.dateSlug, EditContent(edit), sha)
             /\ SetTask(i, Finish([Say(r, "edit_applied", edit.dateSlug) EXCEPT
                  !.wrote = Some([slug |-> edit.dateSlug, entry |-> edit.updatedContent])]))
        ELSE /\ files' = files
             /\ SetTask(i, Finish([Threw(r) EXCEPT
                  !.replies = Append(@, EditFailureReply(status, m))]))
  /\ UNCHANGED <<maps, images, now>>

\* app.action("reject_edit").
RejectEdit(u, b) ==
  /\ CanStart
  /\ HasButton(b, "reject_edit")
  /\ LET t0 == Click("reject_edit", u, b)
     IN IF ~isAuthorized(u)
        THEN tasks' = Append(tasks, t0) /\ UNCHANGED pendingEdits
        ELSE /\ pendingEdits' = RejectedEdits(pendingEdits, u)
             /\ tasks' = Append(tasks,
                  Say([t0 EXCEPT !.took = IF MapHas(pendingEdits, u)
                                          THEN pendingEdits[u].id ELSE 0],
                      "edit_discarded", ""))
  /\ UNCHANGED <<pendingProposals, pendingUnclear, conversationContext, files, images, now>>


\* ------------------------------------------------------------------ inputs
MsgTexts == { <<"t2", ":tada:">> }
Attachments == { <<>>, <<"png">> }
ReviewResults ==
  { [action |-> "publish", text |-> <<"s1">>, explanation |-> "expl"],
    [action |-> "suggest", text |-> <<"s1">>, explanation |-> "expl"],
    [action |-> "suggest", text |-> <<"s2", " ">>, explanation |-> "expl"] }
OkMasks(i) == [1..Len(extractImageFiles(tasks[i].attach)) -> {"ok", "download_failed"}]
TransferMasks(i) == [1..Len(extractImageFiles(tasks[i].attach)) -> TransferOutcomes]
PublishResult == [action |-> "publish", text |-> <<"s1">>, explanation |-> "expl"]
SuggestResult == [action |-> "suggest", text |-> <<"s1">>, explanation |-> "expl"]
PublishSpaced == [action |-> "publish", text |-> <<"s2", " ">>, explanation |-> ""]
EditResult ==
  [action |-> "edit", dateSlug |-> "d0",
   updatedContent |-> <<"hdr_d0", "NL2", "new0", "NL">>,
   clarification |-> "", reason |-> ""]
ClarifyResult ==
  [action |-> "unclear", dateSlug |-> "", updatedContent |-> <<>>,
   clarification |-> "which one?", reason |-> ""]

CommandTexts == { <<"show today">>, <<"help me write">>, <<"help me write", "idea">>, <<"help">> }
UnsupportedResult ==
  [action |-> "unsupported", dateSlug |-> "", updatedContent |-> <<>>,
   clarification |-> "", reason |-> "cannot"]
MissingFileResult ==
  [action |-> "edit", dateSlug |-> "d9", updatedContent |-> <<"x">>,
   clarification |-> "", reason |-> ""]

\* ---------------------------------------------------------- specifications
\* Every handler and every step, for every user.
Next ==
  \/ \E u \in Users, x \in MsgTexts \cup CommandTexts \cup {<<>>}, a \in Attachments,
        s \in {"", "message_changed"} : Message(u, x, a, s)
  \/ \E i \in Tasks, c \in {"moment", "instruction", "unclear", "throw"} :
        ClassifyReturns(i, c)
  \/ \E i \in Tasks, c \in {"instruction", "unclear"} : ClassifySayThrows(i, c)
  \/ \E i \in Tasks : \E ok \in OkMasks(i) : ImagesDone(i, ok)
  \/ \E i \in Tasks, r \in ReviewResults : ReviewReturns(i, r)
  \/ \E i \in Tasks, m \in ErrMessages : ReviewThrows(i, m)
  \/ \E i \in Tasks, f \in BOOLEAN, m \in ErrMessages : AddRead(i, f, m)
  \/ \E i \in Tasks, f \in BOOLEAN, m \in ErrMessages : AddWrite(i, f, m)
  \/ \E i \in Tasks, f \in BOOLEAN, m \in ErrMessages : FetchStep(i, f, m)
  \/ \E i \in Tasks : \E ok \in OkMasks(i) : InstrImagesDone(i, ok)
  \/ \E i \in Tasks,
        res \in {EditResult, ClarifyResult, UnsupportedResult, MissingFileResult} :
        ExecReturns(i, res)
  \/ \E i \in Tasks, m \in ErrMessages : ExecThrows(i, m)
  \/ \E i \in Tasks, f \in BOOLEAN, m \in ErrMessages : ShowReturns(i, f, m)
  \/ \E i \in Tasks : CraftReturns(i, <<"c1">>)
  \/ \E i \in Tasks, m \in ErrMessages : CraftThrows(i, m)
  \/ \E u \in Users, b \in Tasks : AcceptSuggestion(u, b)
  \/ \E u \in Users, b \in Tasks : RejectSuggestion(u, b)
  \/ \E u \in Users, b \in Tasks : PublishOriginal(u, b)
  \/ \E u \in Users, b \in Tasks : TreatAsMoment(u, b)
  \/ \E u \in Users, b \in Tasks : TreatAsInstruction(u, b)
  \/ \E u \in Users, b \in Tasks : ApproveEdit(u, b)
  \/ \E u \in Users, b \in Tasks : RejectEdit(u, b)
  \/ \E i \in Tasks, f \in BOOLEAN, m \in ErrMessages : EditWrite(i, f, m)

Spec == Init /\ [][Next]_vars

\* The publish flow and the proposal buttons, for the principal.
NextProposal ==
  \/ \E x \in MsgTexts, a \in Attachments : Message(AuthorizedUserId, x, a, "")
  \/ \E b \in Tasks : AcceptSuggestion(AuthorizedUserId, b)
  \/ \E b \in Tasks : RejectSuggestion(AuthorizedUserId, b)
  \/ \E b \in Tasks : PublishOriginal(AuthorizedUserId, b)
  \/ \E i \in Tasks : ClassifyReturns(i, "moment")
  \/ \E i \in Tasks : \E ok \in OkMasks(i) : ImagesDone(i, ok)
  \/ \E i \in Tasks, r \in ReviewResults : ReviewReturns(i, r)
  \/ \E i \in Tasks : ReviewThrows(i, "e1")
  \/ \E i \in Tasks : AddRead(i, FALSE, "e1")
  \/ \E i \in Tasks, f \in BOOLEAN : AddWrite(i, f, "e1")

InitEmpty == Init /\ files = EmptyMap

SpecProposal == InitEmpty /\ [][NextProposal]_vars

\* The instruction flow, its follow-up and the edit buttons, with a publish
\* to the same day, for the principal, on a store that has files.
NextEdit ==
  \/ \E x \in MsgTexts : Message(AuthorizedUserId, x, <<>>, "")
  \/ \E i \in Tasks, c \in {"instruction", "moment"} : ClassifyReturns(i, c)
  \/ \E i \in Tasks : ReviewReturns(i, PublishResult)
  \/ \E i \in Tasks : AddRead(i, FALSE, "e1")
  \/ \E i \in Tasks : AddWrite(i, FALSE, "e1")
  \/ \E i \in Tasks : FetchStep(i, FALSE, "e1")
  \/ \E i \in Tasks, res \in {EditResult, ClarifyResult} : ExecReturns(i, res)
  \/ \E b \in Tasks : ApproveEdit(AuthorizedUserId, b)
  \/ \E b \in Tasks : RejectEdit(AuthorizedUserId, b)
  \/ \E i \in Tasks, f \in BOOLEAN, m \in ErrMessages : EditWrite(i, f, m)

InitFiles == Init /\ files # EmptyMap

SpecEdit == InitFiles /\ [][NextEdit]_vars

\* The publish flow alone, from the message to the store, which starts empty.
NextPublish ==
  \/ \E x \in MsgTexts, a \in Attachments : Message(AuthorizedUserId, x, a, "")
  \/ \E i \in Tasks : ClassifyReturns(i, "moment")
  \/ \E i \in Tasks : \E ok \in OkMasks(i) : ImagesDone(i, ok)
  \/ \E i \in Tasks, r \in {PublishSpaced, SuggestResult} : ReviewReturns(i, r)
  \/ \E i \in Tasks : ReviewThrows(i, "e1")
  \/ \E i \in Tasks : AddRead(i, FALSE, "e1")
  \/ \E i \in Tasks : AddWrite(i, FALSE, "e1")

SpecPublish == InitEmpty /\ [][NextPublish]_vars

\* The instruction flow with its clarification round, while time passes.
NextClock ==
  \/ \E x \in MsgTexts : Message(AuthorizedUserId, x, <<>>, "")
  \/ \E i \in Tasks : ClassifyReturns(i, "instruction")
  \/ \E i \in Tasks : FetchStep(i, FALSE, "e1")
  \/ \E i \in Tasks, res \in {EditResult, ClarifyResult} : ExecReturns(i, res)
  \/ Tick

SpecClock == InitFiles /\ [][NextClock]_vars

\* Classification with all its outcomes, the publish flow behind it and the
\* two buttons that resolve an UnclearMessage.
NextClassify ==
  \/ \E x \in MsgTexts, a \in Attachments : Message(AuthorizedUserId, x, a, "")
  \/ \E i \in Tasks, c \in {"throw", "unclear"} : ClassifyReturns(i, c)
  \/ \E i \in Tasks : \E ok \in OkMasks(i) : ImagesDone(i, ok)
  \/ \E i \in Tasks, r \in {PublishResult, SuggestResult} : ReviewReturns(i, r)
  \/ \E i \in Tasks : AddRead(i, FALSE, "e1")
  \/ \E i \in Tasks : AddWrite(i, FALSE, "e1")
  \/ \E b \in Tasks : TreatAsMoment(AuthorizedUserId, b)
  \/ \E b \in Tasks : TreatAsInstruction(AuthorizedUserId, b)
  \/ \E i \in Tasks : \E ok \in OkMasks(i) : InstrImagesDone(i, ok)
  \/ \E i \in Tasks : FetchStep(i, FALSE, "e1")
  \/ \E i \in Tasks : ExecReturns(i, EditResult)

SpecClassify == InitFiles /\ [][NextClassify]_vars

\* Messages with images: image-only ones, and text with an image, while a
\* clarification round of a text-only instruction may be open.
MsgShapes ==
  { [text |-> <<"t2", ":tada:">>, attach |-> <<>>],
    [text |-> <<"t2", ":tada:">>, attach |-> <<"png">>],
    [text |-> <<>>, attach |-> <<"png", "png">>] }

NextImages ==
  \/ \E m \in MsgShapes : Message(AuthorizedUserId, m.text, m.attach, "file_share")
  \/ \E i \in Tasks : tasks[i].attach = <<>> /\ ClassifyReturns(i, "instruction")
  \/ \E i \in Tasks : tasks[i].attach # <<>> /\ ClassifyReturns(i, "moment")
  \/ \E i \in Tasks : FetchStep(i, FALSE, "e1")
  \/ \E i \in Tasks : ExecReturns(i, ClarifyResult)
  \/ \E i \in Tasks : \E ok \in OkMasks(i) : ImagesDone(i, ok)
  \/ \E i \in Tasks, r \in {PublishResult, SuggestResult} : ReviewReturns(i, r)
  \/ \E i \in Tasks : AddRead(i, FALSE, "e1")
  \/ \E i \in Tasks : AddWrite(i, FALSE, "e1")

SpecImages == InitEmpty /\ [][NextImages]_vars

\* Time passes: more than the expiry period in one go.
Lapse ==
  /\ now + ExpiryMinutes + 1 <= MaxTime
  /\ now' = now + ExpiryMinutes + 1
  /\ UNCHANGED <<maps, files, images, tasks>>

\* The fixed commands, among messages that leave an UnclearMessage or open a
\* clarification round that may expire.
CraftedTexts == { <<"c1">> }

NextCommands ==
  \/ \E x \in CommandTexts \cup MsgTexts : Message(AuthorizedUserId, x, <<>>, "")
  \/ \E i \in Tasks, c \in {"unclear", "instruction"} : ClassifyReturns(i, c)
  \/ \E i \in Tasks : FetchStep(i, FALSE, "e1")
  \/ \E i \in Tasks : ExecReturns(i, ClarifyResult)
  \/ \E i \in Tasks, fault \in BOOLEAN : ShowReturns(i, fault, "e1")
  \/ \E i \in Tasks, crafted \in CraftedTexts : CraftReturns(i, crafted)
  \/ \E i \in Tasks : CraftThrows(i, "e1")
  \/ Lapse

SpecCommands == InitFiles /\ [][NextCommands]_vars

\* The instruction flow with every answer of the edit gateway, for messages
\* with and without an image, on an empty and on a filled store.
NextInstruction ==
  \/ \E x \in MsgTexts, a \in Attachments : Message(AuthorizedUserId, x, a, "")
  \/ \E i \in Tasks : ClassifyReturns(i, "instruction")
  \/ \E i \in Tasks : \E ok \in OkMasks(i) : InstrImagesDone(i, ok)
  \/ \E i \in Tasks : FetchStep(i, FALSE, "e1")
  \/ \E i \in Tasks,
        res \in {EditResult, ClarifyResult, UnsupportedResult, MissingFileResult} :
        ExecReturns(i, res)

SpecInstruction == Init /\ [][NextInstruction]_vars

\* Every flow with its gateway and store calls failing or not, one event
\* handled after the other.
Quiet == InFlight = {}

FaultShapes ==
  { [text |-> <<"t2", ":tada:">>, attach |-> <<>>],
    [text |-> <<"t2", ":tada:">>, attach |-> <<"png", "png">>],
    [text |-> <<"show today">>, attach |-> <<>>],
    [text |-> <<"help me write", "idea">>, attach |-> <<>>] }

NextFaults ==
  \/ \E m \in FaultShapes : Quiet /\ Message(AuthorizedUserId, m.text, m.attach, "")
  \/ \E i \in Tasks : tasks[i].attach = <<>> /\ ClassifyReturns(i, "instruction")
  \/ \E i \in Tasks : ClassifyReturns(i, "moment")
  \/ \E i \in Tasks : \E ok \in OkMasks(i) : ImagesDone(i, ok)
  \/ \E i \in Tasks : ReviewReturns(i, SuggestResult)
  \/ \E i \in Tasks : ReviewThrows(i, "e1")
  \/ \E i \in Tasks, f \in BOOLEAN : AddRead(i, f, "e1")
  \/ \E i \in Tasks, f \in BOOLEAN : AddWrite(i, f, "e1")
  \/ \E i \in Tasks, f \in BOOLEAN : FetchStep(i, f, "e1")
  \/ \E i \in Tasks : ExecReturns(i, EditResult)
  \/ \E i \in Tasks : ExecThrows(i, "e1")
  \/ \E i \in Tasks, f \in BOOLEAN : ShowReturns(i, f, "e1")
  \/ \E i \in Tasks, crafted \in CraftedTexts : CraftReturns(i, crafted)
  \/ \E i \in Tasks : CraftThrows(i, "e1")
  \/ \E b \in Tasks : Quiet /\ AcceptSuggestion(AuthorizedUserId, b)
  \/ \E b \in Tasks : Quiet /\ PublishOriginal(AuthorizedUserId, b)
  \/ \E b \in Tasks : Quiet /\ ApproveEdit(AuthorizedUserId, b)
  \/ \E i \in Tasks, f \in BOOLEAN : EditWrite(i, f, "e1")

SpecFaults == InitFiles /\ [][NextFaults]_vars

\* Clarification rounds: instructions and replies with different texts, an
\* edit gateway that keeps asking, one event handled after the other while
\* time passes.
RoundTexts == { <<"t2", ":tada:">>, <<"t3">> }

ClarifyAgain ==
  [action |-> "unclear", dateSlug |-> "", updatedContent |-> <<>>,
   clarification |-> "which day?", reason |-> ""]

NextRounds ==
  \/ \E x \in RoundTexts : Quiet /\ Message(AuthorizedUserId, x, <<>>, "")
  \/ \E i \in Tasks : ClassifyReturns(i, "instruction")
  \/ \E i \in Tasks : FetchStep(i, FALSE, "e1")
  \/ \E i \in Tasks, res \in {ClarifyResult, ClarifyAgain} : ExecReturns(i, res)
  \/ Tick

SpecRounds == InitFiles /\ [][NextRounds]_vars

\* Edits of today's and of yesterday's file, proposed and approved.
EditYesterday ==
  [action |-> "edit", dateSlug |-> "d1",
   updatedContent |-> <<"hdr_d1", "NL2", "new1", " ", "NL">>,
   clarification |-> "", reason |-> ""]

NextApprove ==
  \/ \E x \in MsgTexts : Message(AuthorizedUserId, x, <<>>, "")
  \/ \E i \in Tasks : ClassifyReturns(i, "instruction")
  \/ \E i \in Tasks : FetchStep(i, FALSE, "e1")
  \/ \E i \in Tasks, res \in {EditResult, EditYesterday} : ExecReturns(i, res)
  \/ \E b \in Tasks : ApproveEdit(AuthorizedUserId, b)
  \/ \E i \in Tasks, f \in BOOLEAN : EditWrite(i, f, "e1")

SpecApprove == InitFiles /\ [][NextApprove]_vars

\* Fixed commands and plain messages, one handled after the other, around a
\* clarification question, while time passes.
NextPrecedence ==
  \/ \E x \in CommandTexts \cup MsgTexts :
        Quiet /\ Message(AuthorizedUserId, x, <<>>, "")
  \/ \E i \in Tasks : ClassifyReturns(i, "instruction")
  \/ \E i \in Tasks : FetchStep(i, FALSE, "e1")
  \/ \E i \in Tasks : ExecReturns(i, ClarifyResult)
  \/ \E i \in Tasks : ShowReturns(i, FALSE, "e1")
  \/ \E i \in Tasks, crafted \in CraftedTexts : CraftReturns(i, crafted)
  \/ Tick

SpecPrecedence == InitFiles /\ [][NextPrecedence]_vars

\* Messages with images, with and without text, each transfer ending in
\* every way it can, one event handled after the other.
TransferShapes ==
  { [text |-> <<"t2", ":tada:">>, attach |-> <<"png", "png">>],
    [text |-> <<>>, attach |-> <<"png">>] }

NextTransfers ==
  \/ \E m \in TransferShapes :
        Quiet /\ Message(AuthorizedUserId, m.text, m.attach, "file_share")
  \/ \E i \in Tasks, c \in {"moment", "instruction"} : ClassifyReturns(i, c)
  \/ \E i \in Tasks : \E ok \in TransferMasks(i) : ImagesDone(i, ok)
  \/ \E i \in Tasks : \E ok \in TransferMasks(i) : InstrImagesDone(i, ok)
  \/ \E i \in Tasks : ReviewReturns(i, PublishResult)
  \/ \E i \in Tasks : AddRead(i, FALSE, "e1")
  \/ \E i \in Tasks : AddWrite(i, FALSE, "e1")
  \/ \E i \in Tasks : FetchStep(i, FALSE, "e1")
  \/ \E i \in Tasks : ExecReturns(i, EditResult)

SpecTransfers == InitFiles /\ [][NextTransfers]_vars

\* Instructions and ambiguous messages whose first reply may fail to go
\* out, with the publish flow and the instruction flow behind them.
NextSayFails ==
  \/ \E x \in MsgTexts, a \in Attachments : Message(AuthorizedUserId, x, a, "")
  \/ \E i \in Tasks, c \in {"instruction", "unclear"} : ClassifyReturns(i, c)
  \/ \E i \in Tasks, c \in {"instruction", "unclear"} : ClassifySayThrows(i, c)
  \/ \E i \in Tasks : \E ok \in OkMasks(i) : ImagesDone(i, ok)
  \/ \E i \in Tasks : \E ok \in OkMasks(i) : InstrImagesDone(i, ok)
  \/ \E i \in Tasks : ReviewReturns(i, PublishResult)
  \/ \E i \in Tasks : AddRead(i, FALSE, "e1")
  \/ \E i \in Tasks : AddWrite(i, FALSE, "e1")
  \/ \E i \in Tasks, f \in BOOLEAN : FetchStep(i, f, "e1")
  \/ \E i \in Tasks : ExecReturns(i, EditResult)

SpecSayFails == InitFiles /\ [][NextSayFails]_vars

\* Every handler of the principal's events and every step of its flows, one
\* event handled after the other, with a clock that can run past the expiry.
FrameTexts == { <<"t2", ":tada:">>, <<"help me write", "idea">>, <<"show today">> }

NextFrames ==
  \/ \E x \in FrameTexts, a \in Attachments :
        Quiet /\ Message(AuthorizedUserId, x, a, "")
  \/ \E i \in Tasks, c \in {"moment", "instruction", "unclear"} : ClassifyReturns(i, c)
  \/ \E i \in Tasks : \E ok \in OkMasks(i) : ImagesDone(i, ok)
  \/ \E i \in Tasks : \E ok \in OkMasks(i) : InstrImagesDone(i, ok)
  \/ \E i \in Tasks : ReviewReturns(i, SuggestResult)
  \/ \E i \in Tasks : AddRead(i, FALSE, "e1")
  \/ \E i \in Tasks : AddWrite(i, FALSE, "e1")
  \/ \E i \in Tasks : FetchStep(i, FALSE, "e1")
  \/ \E i \in Tasks, res \in {EditResult, ClarifyResult} : ExecReturns(i, res)
  \/ \E i \in Tasks : ShowReturns(i, FALSE, "e1")
  \/ \E i \in Tasks, crafted \in CraftedTexts : CraftReturns(i, crafted)
  \/ \E b \in Tasks : Quiet /\ AcceptSuggestion(AuthorizedUserId, b)
  \/ \E b \in Tasks : Quiet /\ RejectSuggestion(AuthorizedUserId, b)
  \/ \E b \in Tasks : Quiet /\ PublishOriginal(AuthorizedUserId, b)
  \/ \E b \in Tasks : Quiet /\ TreatAsMoment(AuthorizedUserId, b)
  \/ \E b \in Tasks : Quiet /\ TreatAsInstruction(AuthorizedUserId, b)
  \/ \E b \in Tasks : Quiet /\ ApproveEdit(AuthorizedUserId, b)
  \/ \E b \in Tasks : Quiet /\ RejectEdit(AuthorizedUserId, b)
  \/ \E i \in Tasks : EditWrite(i, FALSE, "e1")
  \/ Lapse

SpecFrames == InitFiles /\ [][NextFrames]_vars

\* A network call of run i never returns: the run stays suspended for good.
Hang(i) ==
  /\ i \in Tasks
  /\ tasks[i].pc \notin {"done", "hung"}
  /\ SetTask(i, [tasks[i] EXCEPT !.pc = "hung"])
  /\ UNCHANGED <<maps, files, images, now>>

\* The call run i is suspended at returns or fails: the steps of NextLive
\* that move run i on.
Continue(i) ==
  \/ \E c \in {"moment", "instruction"} : ClassifyReturns(i, c)
  \/ ReviewReturns(i, SuggestResult)
  \/ ReviewThrows(i, "e1")
  \/ AddRead(i, FALSE, "e1")
  \/ \E f \in BOOLEAN : AddWrite(i, f, "e1")
  \/ FetchStep(i, FALSE, "e1")
  \/ ExecReturns(i, EditResult)
  \/ \E f \in BOOLEAN : EditWrite(i, f, "e1")

\* The principal's messages, edited ones among them, and clicks; every call
\* returns, fails or hangs.
NextLive ==
  \/ \E x \in MsgTexts, s \in {"", "message_changed"} :
        Message(AuthorizedUserId, x, <<>>, s)
  \/ \E b \in Tasks : AcceptSuggestion(AuthorizedUserId, b)
  \/ \E b \in Tasks : ApproveEdit(AuthorizedUserId, b)
  \/ \E i \in Tasks, c \in {"moment", "instruction"} : ClassifyReturns(i, c)
  \/ \E i \in Tasks : ReviewReturns(i, SuggestResult)
  \/ \E i \in Tasks : ReviewThrows(i, "e1")
  \/ \E i \in Tasks : AddRead(i, FALSE, "e1")
  \/ \E i \in Tasks, f \in BOOLEAN : AddWrite(i, f, "e1")
  \/ \E i \in Tasks : FetchStep(i, FALSE, "e1")
  \/ \E i \in Tasks : ExecReturns(i, EditResult)
  \/ \E i \in Tasks, f \in BOOLEAN : EditWrite(i, f, "e1")
  \/ \E i \in Tasks : Hang(i)

\* The event loop resumes a run whose call has returned.
Resumed == \A i \in 1..MaxEvents : WF_vars(Continue(i))

SpecLive == InitFiles /\ [][NextLive]_vars /\ Resumed

\* Messages and button clicks by someone else, while the principal's flows
\* bring every kind of pending state about.
NextIntruder ==
  \/ \E u \in Users, x \in MsgTexts \cup {<<>>}, a \in {<<>>, <<"pdf">>},
        s \in {"", "message_changed"} : Message(u, x, a, s)
  \/ \E i \in Tasks, c \in {"instruction", "moment", "unclear"} : ClassifyReturns(i, c)
  \/ \E i \in Tasks : ReviewReturns(i, SuggestResult)
  \/ \E i \in Tasks : FetchStep(i, FALSE, "e1")
  \/ \E i \in Tasks, res \in {EditResult, ClarifyResult} : ExecReturns(i, res)
  \/ \E b \in Tasks : AcceptSuggestion("U_OTHER", b)
  \/ \E b \in Tasks : RejectSuggestion("U_OTHER", b)
  \/ \E b \in Tasks : PublishOriginal("U_OTHER", b)
  \/ \E b \in Tasks : TreatAsMoment("U_OTHER", b)
  \/ \E b \in Tasks : TreatAsInstruction("U_OTHER", b)
  \/ \E b \in Tasks : ApproveEdit("U_OTHER", b)
  \/ \E b \in Tasks : RejectEdit("U_OTHER", b)

SpecIntruder == InitFiles /\ [][NextIntruder]_vars


\* -------------------------------------------------------------- properties
IsButton(i) == tasks[i].kind # "message"
ByPrincipal(i) == isAuthorized(tasks[i].user)
Done(i) == tasks[i].pc = "done"
LastReply(i) == tasks[i].replies[Len(tasks[i].replies)][1]
Accepts == {i \in Tasks : tasks[i].kind = "accept_suggestion" /\ ByPrincipal(i)}
Originals == {i \in Tasks : tasks[i].kind = "publish_original" /\ ByPrincipal(i)}
Approvals == {i \in Tasks : tasks[i].kind = "approve_edit" /\ ByPrincipal(i)}

\* C1 (as stated): once an accept-proposal activation that found Proposal p
\* has finished, the accept activations have committed p exactly once, and an
\* accept activation that found no Proposal has replied 'no pending
\* proposal' and issued no write.
C1_ExactlyOneCommit ==
  \A a \in Accepts :
    /\ (tasks[a].took # 0 /\ Done(a)) =>
         Cardinality({x \in Accepts : tasks[x].took = tasks[a].took
                                       /\ tasks[x].wrote # None}) = 1
    /\ tasks[a].took = 0 =>
         /\ tasks[a].replies = <<Reply("no_pending_proposal", "")>>
         /\ tasks[a].sw = 0

\* C1 (amended): a Proposal is found by at most one accept-proposal
\* activation; that activation makes one addMoment call, which commits the
\* entry once or, when the store read or write fails, commits nothing and
\* reports the failure; an accept activation that found no Proposal has
\* replied 'no pending proposal' and issued no store read or write.
C1_AtMostOneCommit ==
  \A a \in Accepts :
    /\ \A x \in Accepts : (tasks[a].took # 0 /\ tasks[x].took = tasks[a].took) => x = a
    /\ tasks[a].took = 0 =>
         /\ tasks[a].replies = <<Reply("no_pending_proposal", "")>>
         /\ Done(a) /\ tasks[a].sr = 0 /\ tasks[a].sw = 0 /\ tasks[a].wrote = None
    /\ (tasks[a].took # 0 /\ Done(a)) =>
         /\ tasks[a].sr = 1 /\ tasks[a].sw <= 1
         /\ Len(tasks[a].replies) = 1
         /\ IF tasks[a].wrote # None
            THEN tasks[a].sw = 1 /\ LastReply(a) = "published"
            ELSE LastReply(a) = "failed_to_publish"

\* Two accept activations on one proposal message, the first committed, the
\* second found the slot cleared.
C1_Witness ==
  \E a, x \in Accepts :
    /\ a < x /\ tasks[a].btn = tasks[x].btn
    /\ tasks[a].took = tasks[a].btn /\ tasks[a].wrote # None
    /\ tasks[x].took = 0 /\ Done(x)


\* The replies that tell the principal there is nothing pending.
NothingPendingNotices ==
  {"no_pending_proposal", "no_pending_edit", "couldnt_find_original_message"}

\* C2: every button activation by the principal that found its state slot
\* absent has replied with exactly one 'nothing pending' notice, has finished,
\* and has issued no content-store read or write.
C2_AbsentSlotReportsNothingPending ==
  \A c \in Tasks :
    (IsButton(c) /\ ByPrincipal(c) /\ tasks[c].took = 0) =>
      /\ Done(c) /\ tasks[c].sw = 0 /\ tasks[c].wrote = None
      /\ Len(tasks[c].replies) = 1
      /\ LastReply(c) \in NothingPendingNotices

\* C3: an accept or approve activation only ever takes the Proposal or
\* PendingEdit its button was presented for; when the slot holds a later one
\* it takes nothing.
C3_StaleButtonHarmless ==
  \A c \in Accepts \cup Approvals :
    tasks[c].took # 0 => tasks[c].took = tasks[c].btn

\* The runs that posted a suggestion with its three buttons.
Proposers ==
  {p \in Tasks : tasks[p].made /\ IsSome(tasks[p].prompt)
                  /\ Get(tasks[p].prompt).kind = "suggestion"}

\* The Proposal a suggest review creates: the gateway's text, the uploaded
\* embeds, no commit by the proposing run.
C10_ProposalCreated ==
  /\ \A p \in Tasks :
       (IsSome(tasks[p].got) /\ Get(tasks[p].got).action = "suggest" /\ Done(p)
          /\ tasks[p].img # "pending") => p \in Proposers
  /\ \A p \in Proposers :
       /\ IsSome(tasks[p].got) /\ Get(tasks[p].got).action = "suggest"
       /\ tasks[p].sw = 0 /\ tasks[p].wrote = None
       /\ (MapHas(pendingProposals, AuthorizedUserId)
             /\ pendingProposals[AuthorizedUserId].id = p) =>
            /\ pendingProposals[AuthorizedUserId].text = Get(tasks[p].got).text
            /\ pendingProposals[AuthorizedUserId].imageEmbeds = tasks[p].uploaded

\* The original text with the stored embeds, as publish-original commits it.
C10_OriginalCommitted ==
  \A o \in Originals :
    (tasks[o].took # 0 /\ tasks[o].took = tasks[o].btn /\ tasks[o].wrote # None) =>
      Get(tasks[o].wrote).entry =
        combineTextAndImages(Get(tasks[o].value), tasks[tasks[o].took].uploaded)

\* C10 (as stated): a suggest review creates the Proposal and commits
\* nothing; an accept that took it commits exactly the suggested text
\* combined with its stored embeds; a publish-original that took it commits
\* exactly the payload's original text combined with the same embeds.
C10_CommitsExactly ==
  /\ C10_ProposalCreated
  /\ C10_OriginalCommitted
  /\ \A a \in Accepts :
       (tasks[a].took # 0 /\ tasks[a].wrote # None) =>
         Get(tasks[a].wrote).entry =
           combineTextAndImages(Get(tasks[tasks[a].took].got).text,
                                tasks[tasks[a].took].uploaded)

\* C10 (amended): as stated, except that the entry an accept commits is the
\* suggested text combined with the stored embeds with surrounding
\* whitespace trimmed (addMoment trims the entry).
C10_CommitsTrimmed ==
  /\ C10_ProposalCreated
  /\ C10_OriginalCommitted
  /\ \A a \in Accepts :
       (tasks[a].took # 0 /\ tasks[a].wrote # None) =>
         Get(tasks[a].wrote).entry =
           Trim(combineTextAndImages(Get(tasks[tasks[a].took].got).text,
                                     tasks[tasks[a].took].uploaded))

\* A Proposal with an uploaded image, accepted and committed.
C10_Witness ==
  \E a \in Accepts :
    /\ tasks[a].took # 0 /\ tasks[a].wrote # None
    /\ tasks[tasks[a].took].uploaded # <<>>
    /\ tasks[tasks[a].took].text = <<>>


\* The step in which approve_edit's write comes back for run i.
WriteReturns(i) == tasks[i].pc = "edit_write" /\ tasks'[i].pc = "done"

\* The target file's revision token is no longer the one the edit stored.
Modified(i) ==
  LET edit == Get(tasks[i].edit)
  IN edit.dateSlug \in DOMAIN files /\ Sha(files[edit.dateSlug]) # edit.sha

\* C4: when the target file's revision token has changed since the edit was
\* computed, the approve-edit write fails, the failure is reported, and the
\* store (the file with every entry added in the interim) is left exactly as
\* it was.
C4_ConflictKeepsFile ==
  [][\A i \in Tasks :
       (WriteReturns(i) /\ Modified(i)) =>
         /\ files' = files
         /\ tasks'[i].outcome # "ok" /\ tasks'[i].wrote = None
         /\ tasks'[i].replies[Len(tasks'[i].replies)][1] = "failed_to_apply_edit"]_vars

\* An approval refused for its stale token, the interim entry still in the file.
C4_Witness ==
  \E a \in Approvals :
    /\ tasks[a].outcome = "conflict"
    /\ \E p \in Tasks : /\ p < a /\ tasks[p].kind = "message" /\ tasks[p].wrote # None
                        /\ files["d0"] = <<"hdr_d0", "NL2", "old0", "NL2", "---", "NL2", "s1", "NL">>

\* C5: the token an approve-edit sends is one its edit's computing run read
\* for the target file in its recent-files fetch; the approve-edit run reads
\* nothing from the store and attempts its write at most once, also after a
\* failure.
C5_TokenIsTheOneRead ==
  \A a \in Approvals :
    /\ tasks[a].sr = 0 /\ tasks[a].sw <= 1
    /\ tasks[a].took = 0 => tasks[a].sw = 0
    /\ (Done(a) /\ tasks[a].took # 0) => tasks[a].sw = 1
    /\ IsSome(tasks[a].sent) =>
         /\ tasks[a].took # 0
         /\ \E k \in 1..Len(tasks[tasks[a].took].reads) :
              tasks[tasks[a].took].reads[k] = Get(tasks[a].sent)

\* An approve-edit whose write failed, for an edit a follow-up run computed.
C5_Witness ==
  \E a \in Approvals :
    /\ Done(a) /\ IsSome(tasks[a].sent) /\ tasks[a].outcome = "error"
    /\ tasks[tasks[a].took].took # 0

\* C6: the reply approve-edit gives for a write refused over a stale token
\* differs from every reply it gives for a write that failed otherwise.
C6_ConflictReportedDistinctly ==
  \A a \in Approvals :
    tasks[a].outcome = "conflict" =>
      \A m \in ErrMessages :
        tasks[a].replies[Len(tasks[a].replies)] # EditFailureReply("error", m)

\* C7: once an approve-edit has found a PendingEdit the slot no longer holds
\* it, whatever becomes of the write; no other approve-edit finds the same
\* PendingEdit; an approve-edit that finds none replies 'no pending edit' and
\* writes nothing.
C7_ClearedWhateverTheOutcome ==
  \A a \in Approvals :
    /\ tasks[a].took # 0 =>
         /\ ~(MapHas(pendingEdits, AuthorizedUserId)
                /\ pendingEdits[AuthorizedUserId].id = tasks[a].took)
         /\ \A x \in Approvals : tasks[x].took = tasks[a].took => x = a
    /\ tasks[a].took = 0 =>
         /\ tasks[a].replies = <<Reply("no_pending_edit", "")>>
         /\ Done(a) /\ tasks[a].sw = 0 /\ tasks[a].wrote = None

\* An approval whose write failed, followed by an approval that found nothing.
C7_Witness ==
  \E a, x \in Approvals :
    /\ a < x /\ tasks[a].outcome \in {"conflict", "error"}
    /\ tasks[x].took = 0 /\ tasks[x].btn = tasks[a].btn

\* The step that takes in an event of someone other than the principal.
Arrives(isMessage) ==
  /\ Len(tasks') = Len(tasks) + 1
  /\ tasks'[Len(tasks')].user # AuthorizedUserId
  /\ (tasks'[Len(tasks')].kind = "message") = isMessage

\* The run of such an event called neither the gateway nor the store, took
\* and stored nothing, and is over.
Untouched ==
  LET t == tasks'[Len(tasks')]
  IN /\ UNCHANGED <<maps, files, images>>
     /\ t.pc = "done" /\ t.gw = 0 /\ t.sr = 0 /\ t.sw = 0
     /\ t.took = 0 /\ ~t.made /\ t.prompt = None

\* The message is one app.message goes on with: no subtype other than
\* file_share, and text or a supported image.
Handled(t) ==
  /\ t.subtype \in {"", "file_share"}
  /\ (t.text # <<>> \/ extractImageFiles(t.attach) # <<>>)

C9_ForeignClickIsNoOp ==
  [][Arrives(FALSE) =>
       /\ Untouched
       /\ tasks'[Len(tasks')].replies = <<>>]_vars

\* Someone else's click on the approve button while the principal's edit is pending.
C9_Witness ==
  \E i \in Tasks :
    /\ tasks[i].kind = "approve_edit" /\ tasks[i].user # AuthorizedUserId
    /\ MapHas(pendingEdits, AuthorizedUserId)
    /\ pendingEdits[AuthorizedUserId].id = tasks[i].btn


\* The runs whose review came back with the given action.
Reviewed(action) ==
  {i \in Tasks : IsSome(tasks[i].got) /\ Get(tasks[i].got).action = action}

\* A text followed by each embed after a blank line.
FollowedBy(text, embeds) ==
  text \o [k \in 1..(2 * Len(embeds)) |-> IF k % 2 = 1 THEN "NL2" ELSE embeds[k \div 2]]

\* C11 (as stated): a run whose review said publish creates no Proposal, and
\* the entry it commits to today's file is exactly the reviewed text followed
\* by the uploaded embeds.
C11_PublishedExactly ==
  \A i \in Reviewed("publish") :
    /\ ~tasks[i].made /\ tasks[i].prompt = None
    /\ tasks[i].wrote # None =>
         /\ Get(tasks[i].wrote).slug = TodaySlug
         /\ Get(tasks[i].wrote).entry =
              FollowedBy(Get(tasks[i].got).text, tasks[i].uploaded)

\* C11 (amended): a run whose review said publish creates no Proposal, and
\* the entry it commits to today's file is the reviewed text followed by the
\* uploaded embeds, with surrounding whitespace trimmed.
C11_PublishedTrimmed ==
  \A i \in Reviewed("publish") :
    /\ ~tasks[i].made /\ tasks[i].prompt = None
    /\ tasks[i].wrote # None =>
         /\ Get(tasks[i].wrote).slug = TodaySlug
         /\ Get(tasks[i].wrote).entry =
              Trim(FollowedBy(Get(tasks[i].got).text, tasks[i].uploaded))
         /\ \E k \in 0..(Len(files[TodaySlug]) - Len(Get(tasks[i].wrote).entry)) :
              SubSeq(files[TodaySlug], k + 1, k + Len(Get(tasks[i].wrote).entry))
                = Get(tasks[i].wrote).entry

\* A reviewed text published with an uploaded image behind it.
C11_Witness ==
  \E i \in Reviewed("publish") :
    /\ tasks[i].wrote # None /\ tasks[i].uploaded # <<>>
    /\ Get(tasks[i].wrote).entry = <<"s2", " ", "NL2", "img_d0_t0_1">>


\* The step that takes in a text message of the principal that is no fixed
\* command.
PrincipalTextArrives ==
  LET t == tasks'[Len(tasks')]
  IN /\ Len(tasks') = Len(tasks) + 1
     /\ t.kind = "message" /\ t.user = AuthorizedUserId
     /\ t.subtype \in {"", "file_share"}
     /\ t.text # <<>> /\ Trim(t.text) # <<>>
     /\ ~IsShowToday(Trim(t.text)) /\ ~IsCraft(Trim(t.text)) /\ ~IsHelp(Trim(t.text))

\* The age of the principal's ConversationContext, in minutes.
ContextAge == now - conversationContext[AuthorizedUserId].timestamp

\* C12: a message that arrives five minutes or more after the context was
\* stored, also exactly five minutes after, is not routed to the follow-up
\* flow, and the context is gone after that access.
C12_ExpiredFromFiveMinutes ==
  [][(PrincipalTextArrives /\ MapHas(conversationContext, AuthorizedUserId)
        /\ ContextAge >= ExpiryMinutes) =>
       /\ tasks'[Len(tasks')].took = 0
       /\ ~MapHas(conversationContext', AuthorizedUserId)]_vars

\* The runs of the follow-up flow.
FollowUps == {i \in Tasks : tasks[i].kind = "message" /\ tasks[i].took # 0}

\* The run whose instruction opened the clarification round run i belongs to.
RECURSIVE Opener(_)
Opener(i) == IF tasks[i].took = 0 THEN i ELSE Opener(tasks[i].took)

\* C13: a text message of the principal that is no fixed command and arrives
\* while the context is younger than five minutes takes the context and
\* enters the follow-up flow; a follow-up run never gets a classification,
\* never reviews, never writes to the store, and the instruction it gives the
\* edit gateway is the opening instruction, the question the bot asked last
\* and this reply, labelled in that order.
C13_RoutedToFollowUp ==
  [][/\ (PrincipalTextArrives /\ MapHas(conversationContext, AuthorizedUserId)
           /\ ContextAge < ExpiryMinutes) =>
          /\ tasks'[Len(tasks')].took = conversationContext[AuthorizedUserId].id
          /\ tasks'[Len(tasks')].pc \in {"fetch", "instr_img"}
          /\ tasks'[Len(tasks')].gw = 0
     /\ \A i \in FollowUps :
          /\ tasks'[i].pc \in {"fetch", "instr_img", "exec", "done"}
          /\ tasks'[i].intent = "" /\ tasks'[i].got = None
          /\ tasks'[i].sw = 0 /\ tasks'[i].wrote = None
          /\ (tasks[i].pc = "fetch" /\ tasks'[i].pc = "exec") =>
               tasks'[i].asked =
                 Some(<<"Original request:">> \o Get(tasks[Opener(i)].asked)
                        \o <<"Bot asked:",
                             tasks[tasks[i].took].replies[Len(tasks[tasks[i].took].replies)][2],
                             "User replied:">>
                        \o tasks[i].text)]_vars

\* A reply to a clarification question, handed to the edit gateway.
C13_Witness ==
  \E i \in FollowUps :
    /\ IsSome(tasks[i].asked) /\ tasks[i].gw = 1
    /\ tasks[tasks[i].took].replies[Len(tasks[tasks[i].took].replies)][1] = "question"

\* The runs whose classifier call came back with the given outcome.
Classified(intent) == {i \in Tasks : tasks[i].intent = intent}

\* Run i is named by an UnclearMessage, a PendingEdit or a
\* ConversationContext of map m.
Names(m, i) == MapHas(m, AuthorizedUserId) /\ m[AuthorizedUserId].id = i

\* C14: when the classifier call fails the run enters the publish flow at
\* once: the review is started, the only reply of that step is the publish
\* flow's progress note, no map changes; the run never creates an
\* UnclearMessage, a PendingEdit or a ConversationContext, never asks which
\* was meant, and once it has its review it publishes or proposes as the
\* review says.
C14_FailedClassificationIsContent ==
  [][\A i \in Tasks :
       /\ (tasks[i].pc = "classify" /\ tasks'[i].intent = "throw") =>
            /\ tasks'[i].pc = "moment" /\ tasks'[i].rev = "pending"
            /\ tasks'[i].gw = tasks[i].gw + 1
            /\ tasks'[i].replies = Append(tasks[i].replies, Reply("working", "review"))
            /\ maps' = maps
       /\ (i \in Tasks /\ tasks'[i].intent = "throw") =>
            /\ ~Names(pendingUnclear', i) /\ ~Names(pendingEdits', i)
            /\ ~Names(conversationContext', i)
            /\ \A k \in 1..Len(tasks'[i].replies) :
                 tasks'[i].replies[k][1] \in
                   {"working", "published", "suggestion", "images_dropped",
                    "images_dropped_published", "something_went_wrong"}
            /\ tasks'[i].made =>
                 /\ tasks'[i].prompt = Some([kind |-> "suggestion", value |-> Some(<<"t2", "E_tada">>)])
                 /\ tasks'[i].got = Some(SuggestResult)
            /\ tasks'[i].wrote # None => tasks'[i].got = Some(PublishResult)
            /\ (tasks'[i].pc = "done" /\ tasks'[i].got = Some(PublishResult)) =>
                 tasks'[i].wrote # None \/ tasks'[i].sw = 1
            /\ (tasks'[i].pc = "done" /\ tasks'[i].got = Some(SuggestResult)) =>
                 tasks'[i].made]_vars

\* A message whose classification failed and whose reviewed text is in the
\* store.
C14_Witness ==
  \E i \in Classified("throw") :
    /\ Done(i) /\ tasks[i].wrote # None
    /\ pendingUnclear = EmptyMap /\ pendingEdits = EmptyMap

\* C19: when the classifier answers unclear, the UnclearMessage holds the
\* text and the message, the message with the two resolving buttons is
\* posted and the run ends there; it never reviews, never transfers an image
\* and never reads or writes the store, the step itself leaves store and
\* images alone, and only a click on one of the two buttons takes the
\* UnclearMessage up again.
C19_UnclearStops ==
  [][\A i \in Tasks :
       /\ (tasks[i].pc = "classify" /\ tasks'[i].intent = "unclear") =>
            /\ pendingUnclear' =
                 MapSet(pendingUnclear, AuthorizedUserId,
                        [text |-> tasks[i].text, message |-> tasks[i].attach, id |-> i])
            /\ tasks'[i].prompt = Some([kind |-> "unclear", value |-> None])
            /\ ButtonsOf("unclear") = {"treat_as_moment", "treat_as_instruction"}
            /\ tasks'[i].pc = "done"
            /\ files' = files /\ images' = images
       /\ tasks'[i].intent = "unclear" =>
            /\ tasks'[i].gw = 1 /\ tasks'[i].got = None
            /\ tasks'[i].img = "none" /\ tasks'[i].uploaded = <<>>
            /\ tasks'[i].sr = 0 /\ tasks'[i].sw = 0 /\ tasks'[i].wrote = None
            /\ \A j \in 1..Len(tasks') :
                 tasks'[j].took = i =>
                   tasks'[j].kind \in {"treat_as_moment", "treat_as_instruction"}]_vars

\* An ambiguous message with an image, stored with its message and resolved
\* by the treat-as-content button, whose run then transferred the image.
C19_Witness ==
  \E i \in Classified("unclear"), j \in Tasks :
    /\ tasks[i].attach = <<"png">>
    /\ tasks[j].kind = "treat_as_moment" /\ tasks[j].took = i
    /\ tasks[j].uploaded # <<>>

\* The replies that report a publish flow's outcome.
OutcomeReplies ==
  {"published", "suggestion", "something_went_wrong", "couldnt_process_images"}

\* Run i has reported the outcome of its publish flow.
Reported(i) ==
  \E k \in 1..Len(tasks[i].replies) : tasks[i].replies[k][1] \in OutcomeReplies

\* C15: a publish flow reports its outcome only when both its review and its
\* image transfer have finished, and no image enters the store for a run
\* that has reported.
C15_OutcomeAfterBoth ==
  [][\A i \in Tasks :
       /\ Reported(i)' => tasks'[i].img # "pending"
       /\ Reported(i) => tasks'[i].uploaded = tasks[i].uploaded]_vars

\* The publishes that were reported as successful.
Published == {i \in Tasks : tasks[i].wrote # None}

\* The number of entries in a file body: one more than its separators.
RECURSIVE Separators(_)
Separators(content) ==
  IF content = <<>> THEN 0
  ELSE (IF Head(content) = "---" THEN 1 ELSE 0) + Separators(Tail(content))

Entries(store, slug) == IF MapHas(store, slug) THEN 1 + Separators(store[slug]) ELSE 0

\* seq has part as a run of consecutive elements.
HasRun(seq, part) ==
  \E k \in 0..(Len(seq) - Len(part)) : SubSeq(seq, k + 1, k + Len(part)) = part

\* C16: in every interleaving of publishes on one day, the day's file first
\* absent, a write whose read is stale when it lands fails, changes nothing
\* and is reported as a failure; the file has exactly one entry per publish
\* reported as successful, and each of their entries is in it.
C16_NoPublishLost ==
  [][/\ \A i \in Tasks :
          (tasks[i].pc = "add_write" /\ tasks'[i].pc = "done"
             /\ tasks[i].existing # getFile(files, TodaySlug)) =>
            /\ files' = files
            /\ tasks'[i].wrote = None
            /\ tasks'[i].replies[Len(tasks'[i].replies)][1] = "something_went_wrong"
     /\ Entries(files', TodaySlug) = Cardinality(Published')
     /\ \A i \in Published' : HasRun(files'[TodaySlug], Get(tasks'[i].wrote).entry)]_vars

\* Two publishes read the absent file together: one creates it, the other is
\* refused; a third then appends to the first's entry.
C16_Witness ==
  \E i \in Published, j \in Tasks \ Published, k \in Published :
    /\ i # k
    /\ tasks[j].sr = 1 /\ tasks[j].sw = 1 /\ Done(j)
    /\ Entries(files, TodaySlug) = 2

\* The runs of image-only messages: the ones that open with the image
\* progress note.
ImageOnly ==
  {i \in Tasks : /\ tasks[i].kind = "message" /\ tasks[i].user = AuthorizedUserId
                 /\ tasks[i].replies # <<>>
                 /\ tasks[i].replies[1] = Reply("working", "images")}

\* The runs of the publish flow whose image transfers have all failed.
AllImagesFailed ==
  {i \in Tasks : /\ tasks[i].kind = "message" /\ tasks[i].user = AuthorizedUserId
                 /\ extractImageFiles(tasks[i].attach) # <<>>
                 /\ tasks[i].pc \notin {"classify", "moment", "imgonly"}
                 /\ tasks[i].img # "pending" /\ tasks[i].uploaded = <<>>}

\* The last two replies of run i.
LastTwo(i) ==
  LET r == tasks[i].replies
  IN IF Len(r) < 2 THEN <<>> ELSE <<r[Len(r) - 1][1], r[Len(r)][1]>>

\* C17: when every image transfer of a message failed: with text and a
\* publish review the reviewed text alone is published and followed by the
\* notice that the images were dropped (or the store's refusal is reported);
\* with text and a suggest review the Proposal holds the suggestion with no
\* image embeds and the notice follows the prompt; without text the failure
\* is reported, the store is neither read nor written and no Proposal is
\* made.
C17_AllImagesFailed ==
  \A i \in AllImagesFailed :
    /\ (i \notin ImageOnly /\ tasks[i].got = Some(PublishResult)) =>
         /\ ~tasks[i].made
         /\ tasks[i].wrote # None =>
              /\ Get(tasks[i].wrote).entry = PublishResult.text
              /\ LastTwo(i) = <<"published", "images_dropped_published">>
         /\ (Done(i) /\ tasks[i].wrote = None) =>
              /\ LastReply(i) = "something_went_wrong" /\ tasks[i].sw = 1
    /\ (i \notin ImageOnly /\ tasks[i].got = Some(SuggestResult)) =>
         /\ Done(i) /\ tasks[i].made /\ tasks[i].wrote = None /\ tasks[i].sr = 0
         /\ LastTwo(i) = <<"suggestion", "images_dropped">>
         /\ Names(pendingProposals, i) =>
              /\ pendingProposals[AuthorizedUserId].text = SuggestResult.text
              /\ pendingProposals[AuthorizedUserId].imageEmbeds = <<>>
    /\ i \in ImageOnly =>
         /\ Done(i) /\ LastReply(i) = "couldnt_process_images"
         /\ tasks[i].sr = 0 /\ tasks[i].sw = 0 /\ tasks[i].wrote = None
         /\ ~tasks[i].made /\ ~Names(pendingProposals, i)

\* All three cases have happened: text published without its image, a
\* suggestion stored without embeds, and an image-only message given up.
C17_Witness ==
  \E i, j, k \in AllImagesFailed :
    /\ tasks[i].wrote # None /\ LastReply(i) = "images_dropped_published"
    /\ tasks[j].made /\ LastReply(j) = "images_dropped"
    /\ k \in ImageOnly /\ Done(k)

\* The step that takes in a message of the principal with images and no text.
ImageOnlyArrives ==
  LET t == tasks'[Len(tasks')]
  IN /\ Len(tasks') = Len(tasks) + 1
     /\ t.kind = "message" /\ t.user = AuthorizedUserId
     /\ t.subtype \in {"", "file_share"}
     /\ t.text = <<>> /\ extractImageFiles(t.attach) # <<>>

\* The embeds with a blank line between each two.
Interleaved(embeds) ==
  [k \in 1..(2 * Len(embeds) - 1) |->
     IF k % 2 = 1 THEN embeds[(k + 1) \div 2] ELSE "NL2"]

\* C18: a message of the principal with images and no text starts the
\* image transfer at once, without a gateway call and without changing a
\* map, also while a ConversationContext is live; no step of its run makes a
\* gateway call or changes a map, and what it publishes is one entry, the
\* uploaded embeds with a blank line between them.
C18_ImageOnlyPublished ==
  [][/\ ImageOnlyArrives =>
          /\ tasks'[Len(tasks')].pc = "imgonly"
          /\ tasks'[Len(tasks')].img = "pending"
          /\ tasks'[Len(tasks')].replies = <<Reply("working", "images")>>
          /\ maps' = maps
     /\ \A i \in ImageOnly' :
          /\ tasks'[i].gw = 0 /\ tasks'[i].intent = "" /\ tasks'[i].got = None
          /\ tasks'[i].asked = None /\ tasks'[i].took = 0 /\ ~tasks'[i].made
          /\ (i \in Tasks /\ tasks'[i] # tasks[i]) => maps' = maps
          /\ tasks'[i].wrote # None =>
               /\ tasks'[i].uploaded # <<>>
               /\ Get(tasks'[i].wrote).entry = Interleaved(tasks'[i].uploaded)
               /\ HasRun(files'[TodaySlug], Interleaved(tasks'[i].uploaded))
               /\ tasks'[i].sw = 1]_vars

\* Two images sent without text while a clarification question was open:
\* both are in one entry, and the context is still there.
C18_Witness ==
  \E i \in ImageOnly :
    /\ tasks[i].wrote # None /\ Len(tasks[i].uploaded) = 2
    /\ MapHas(conversationContext, AuthorizedUserId)
    /\ conversationContext[AuthorizedUserId].id < i

\* Run t handles a fixed command: it waits for the day's file or for the
\* craft gateway, or its first reply is one only a command gives.
IsCommandRun(t) ==
  /\ t.kind = "message" /\ t.user = AuthorizedUserId
  /\ \/ t.pc \in {"show_read", "craft"}
     \/ /\ t.replies # <<>>
        /\ \/ t.replies[1][1] \in {"help", "tell_me_topic", "no_moments_yet",
                                   "moments_for", "couldnt_fetch_today"}
           \/ t.replies[1] = Reply("working", "craft")

\* The step starts run i or moves it on.
StepOf(i) == i \notin Tasks \/ tasks'[i] # tasks[i]

\* C20, as stated: no step of a fixed command's run changes any of the four
\* slots.
C20_CommandsTouchNothing ==
  [][\A i \in 1..Len(tasks') :
       (IsCommandRun(tasks'[i]) /\ StepOf(i)) => maps' = maps]_vars

\* C20, amended: no step of a fixed command's run changes the
\* UnclearMessage, PendingEdit or ConversationContext slot (an expired
\* context included), and the only step that changes the Proposal slot is the
\* craft gateway's answer, which puts the crafted text there with no images;
\* show-today, bare help, a craft command without a topic and a failed craft
\* leave all four as they were.
C20_OnlyCraftedTextIsProposed ==
  [][\A i \in 1..Len(tasks') :
       (IsCommandRun(tasks'[i]) /\ StepOf(i)) =>
         /\ pendingUnclear' = pendingUnclear
         /\ pendingEdits' = pendingEdits
         /\ conversationContext' = conversationContext
         /\ IF i \in Tasks /\ tasks[i].pc = "craft" /\ tasks'[i].made
            THEN \E crafted \in CraftedTexts :
                   pendingProposals' =
                     MapSet(pendingProposals, AuthorizedUserId,
                            [text |-> crafted, imageEmbeds |-> <<>>, id |-> i])
            ELSE pendingProposals' = pendingProposals]_vars

\* A crafted text was proposed and today's file was shown after a
\* ConversationContext had passed its five minutes; the context is still
\* in its slot.
C20_Witness ==
  \E i, j \in Tasks :
    /\ IsCommandRun(tasks[i]) /\ tasks[i].made /\ Names(pendingProposals, i)
    /\ IsCommandRun(tasks[j]) /\ tasks[j].shown # None
    /\ MapHas(conversationContext, AuthorizedUserId)
    /\ ContextAge > ExpiryMinutes
    /\ conversationContext[AuthorizedUserId].id < i
    /\ conversationContext[AuthorizedUserId].id < j

\* The edit gateway's answer reaches run i in this step.
Answered(i) == tasks[i].pc = "exec" /\ tasks'[i].pc = "done"

\* The days run i found in the store.
FetchedDays(i) == {tasks[i].reads[k].dateSlug : k \in 1..Len(tasks[i].reads)}

\* C21: in the instruction and the follow-up flow the PendingEdit slot
\* changes only with a proposed edit for a day the same run fetched, and
\* then holds that day with the token fetched for it; an unsupported answer
\* and an edit for a day that was not fetched are reported and leave the
\* PendingEdit and the ConversationContext slot as they were.
C21_EditOnlyForFetchedDay ==
  [][\A i \in Tasks :
       Answered(i) =>
         LET last == tasks'[i].replies[Len(tasks'[i].replies)]
         IN /\ pendingEdits' # pendingEdits <=> last[1] = "proposed_edit"
            /\ last[1] = "proposed_edit" =>
                 /\ DOMAIN pendingEdits' = {AuthorizedUserId}
                 /\ pendingEdits'[AuthorizedUserId].id = i
                 /\ pendingEdits'[AuthorizedUserId].dateSlug = last[2]
                 /\ \E k \in 1..Len(tasks[i].reads) :
                      /\ tasks[i].reads[k].dateSlug = last[2]
                      /\ tasks[i].reads[k].sha = pendingEdits'[AuthorizedUserId].sha
            /\ last[1] = "couldnt_find_file" => last[2] \notin FetchedDays(i)
            /\ last[1] \in {"unsupported", "couldnt_find_file"} =>
                 /\ pendingEdits' = pendingEdits
                 /\ conversationContext' = conversationContext
                 /\ ~tasks'[i].made]_vars

\* An edit for a day that was not fetched was reported while the PendingEdit
\* of an earlier instruction was waiting: it still is.
C21_Witness ==
  \E i, j \in Tasks :
    /\ j < i /\ Done(i) /\ LastReply(i) = "couldnt_find_file"
    /\ Names(pendingEdits, j)
    /\ \E k \in Tasks : Done(k) /\ tasks[k].replies # <<>> /\ LastReply(k) = "unsupported"

\* The replies a flow's catch gives, and the notices about images.
FailureKinds ==
  {"something_went_wrong", "failed_to_publish", "couldnt_fetch_today",
   "failed_to_apply_edit"}
ImageNotices == {"images_dropped", "images_dropped_published", "couldnt_process_images"}

\* How many replies of run t are of one of the kinds.
Count(t, kinds) == Cardinality({k \in 1..Len(t.replies) : t.replies[k][1] \in kinds})

\* Run i is over, its image transfer too.
Settled(i) == tasks[i].pc = "done" /\ tasks[i].img # "pending"

\* The image transfers of publish run i that raised.
DroppedImages(i) ==
  IF tasks[i].kind = "message" /\ tasks[i].intent = "moment" /\ Settled(i)
  THEN Len(extractImageFiles(tasks[i].attach)) - Len(tasks[i].uploaded)
  ELSE 0

FourMaps == {pendingProposals, pendingUnclear, pendingEdits, conversationContext}

\* C23: each of the four maps has at most one entry, and no key but the
\* authorized principal's id.
C23_OneSlotPerMap ==
  \A m \in FourMaps :
    /\ DOMAIN m \subseteq {AuthorizedUserId}
    /\ Cardinality(DOMAIN m) <= 1

\* The principal has a Proposal and a PendingEdit waiting, and someone
\* else's message was turned away.
C23_Witness ==
  /\ MapHas(pendingProposals, AuthorizedUserId)
  /\ MapHas(pendingEdits, AuthorizedUserId)
  /\ \E i \in Tasks :
       /\ tasks[i].user # AuthorizedUserId
       /\ tasks[i].replies = <<Reply("unauthorized", "")>>

\* Run i posts its suggestion in this step.
Proposes(i) == tasks[i].kind = "message" /\ ~tasks[i].made /\ tasks'[i].made

\* The step that takes in the principal's click on accept.
AcceptArrives ==
  /\ Len(tasks') = Len(tasks) + 1
  /\ tasks'[Len(tasks')].kind = "accept_suggestion"
  /\ tasks'[Len(tasks')].user = AuthorizedUserId

\* C24: a run that proposes leaves in the map nothing but its own Proposal,
\* the text its review suggested and the embeds it uploaded, whatever was
\* there before; an accept takes the Proposal that is in the slot and
\* empties the slot, on whichever prompt the button was clicked; and what an
\* accept commits is the suggestion and the embeds of the run whose Proposal
\* it took.
C24_LastProposalWins ==
  [][/\ \A i \in Tasks :
          Proposes(i) =>
            /\ DOMAIN pendingProposals' = {AuthorizedUserId}
            /\ pendingProposals'[AuthorizedUserId] =
                 [text |-> Get(tasks'[i].got).text, imageEmbeds |-> tasks'[i].uploaded,
                  id |-> i]
     /\ (AcceptArrives /\ MapHas(pendingProposals, AuthorizedUserId)) =>
          /\ tasks'[Len(tasks')].took = pendingProposals[AuthorizedUserId].id
          /\ tasks'[Len(tasks')].text =
               FollowedBy(pendingProposals[AuthorizedUserId].text,
                          pendingProposals[AuthorizedUserId].imageEmbeds)
          /\ pendingProposals' = EmptyMap
     /\ \A j \in 1..Len(tasks') :
          (tasks'[j].kind = "accept_suggestion" /\ tasks'[j].wrote # None) =>
            Get(tasks'[j].wrote).entry =
              Trim(FollowedBy(Get(tasks'[tasks'[j].took].got).text,
                              tasks'[tasks'[j].took].uploaded))]_vars

\* Two suggestions with different texts were made one after the other; the
\* accept button of the first prompt committed the second one's text.
C24_Witness ==
  \E i, j, k \in Tasks :
    /\ i # j /\ tasks[i].made /\ tasks[j].made
    /\ Get(tasks[i].got).text # Get(tasks[j].got).text
    /\ tasks[k].kind = "accept_suggestion" /\ tasks[k].btn = i /\ tasks[k].took = j
    /\ tasks[k].wrote # None
    /\ Get(tasks[k].wrote).entry = Trim(Get(tasks[j].got).text)

\* C25: when the edit gateway asks back, the ConversationContext slot holds
\* the question just asked, the time of that moment and the instruction that
\* opened the round, in a first round and in every further one; and a reply
\* that arrives less than five minutes after the latest question is a
\* follow-up to that question.
C25_ContextRefreshed ==
  [][/\ \A i \in Tasks :
          (Answered(i) /\ tasks'[i].replies[Len(tasks'[i].replies)][1] = "question") =>
            /\ DOMAIN conversationContext' = {AuthorizedUserId}
            /\ conversationContext'[AuthorizedUserId].id = i
            /\ conversationContext'[AuthorizedUserId].clarificationQuestion =
                 tasks'[i].replies[Len(tasks'[i].replies)][2]
            /\ conversationContext'[AuthorizedUserId].timestamp = now
            /\ conversationContext'[AuthorizedUserId].originalInstruction =
                 Get(tasks[Opener(i)].asked)
     /\ (PrincipalTextArrives /\ MapHas(conversationContext, AuthorizedUserId)
           /\ ContextAge < ExpiryMinutes) =>
          tasks'[Len(tasks')].took = conversationContext[AuthorizedUserId].id]_vars

\* A second, different question was asked in a follow-up whose reply was not
\* the opening text, and a third message, sent after minute five, was taken
\* as the answer to that second question.
C25_Witness ==
  \E i, j, k \in Tasks :
    /\ tasks[j].took = i /\ tasks[k].took = j
    /\ LastReply(i) = "question" /\ LastReply(j) = "question"
    /\ tasks[i].replies[Len(tasks[i].replies)] # tasks[j].replies[Len(tasks[j].replies)]
    /\ Get(tasks[j].asked) # Get(tasks[i].asked)
    /\ now > ExpiryMinutes

\* The clicks on one of the two resolving buttons.
Resolvers == {j \in Tasks : tasks[j].kind \in {"treat_as_moment", "treat_as_instruction"}}

\* The step that takes in the principal's click on a resolving button.
ResolveArrives ==
  /\ Len(tasks') = Len(tasks) + 1
  /\ tasks'[Len(tasks')].kind \in {"treat_as_moment", "treat_as_instruction"}
  /\ tasks'[Len(tasks')].user = AuthorizedUserId

\* C26: a click on a resolving button that finds an UnclearMessage takes it
\* out of the slot and enters the button's flow with the stored text and
\* message; a click that finds none says that the original message could not
\* be found and enters no flow; so no ambiguous message is taken up by more
\* than one click, in whatever order and on whichever button the clicks come.
C26_ResolvedAtMostOnce ==
  [][/\ ResolveArrives =>
          LET n == tasks'[Len(tasks')]
          IN IF MapHas(pendingUnclear, AuthorizedUserId)
             THEN /\ n.took = pendingUnclear[AuthorizedUserId].id
                  /\ n.text = pendingUnclear[AuthorizedUserId].text
                  /\ n.attach = pendingUnclear[AuthorizedUserId].message
                  /\ n.pc = IF n.kind = "treat_as_moment" THEN "moment"
                            ELSE IF extractImageFiles(n.attach) # <<>> THEN "instr_img"
                            ELSE "fetch"
                  /\ n.replies = <<Reply("working", IF n.kind = "treat_as_moment"
                                                     THEN "review" ELSE "request")>>
                  /\ pendingUnclear' = EmptyMap
             ELSE /\ n.took = 0 /\ n.pc = "done" /\ n.gw = 0
                  /\ n.replies = <<Reply("couldnt_find_original_message", "")>>
                  /\ pendingUnclear' = EmptyMap
     /\ \A i \in Classified("unclear")' :
          Cardinality({j \in Resolvers' : tasks'[j].took = i}) <= 1]_vars

\* Both buttons of one prompt were clicked: the first click entered its flow
\* with the stored message, the second found nothing.
C26_Witness ==
  \E i \in Classified("unclear"), j, k \in Resolvers :
    /\ tasks[j].btn = i /\ tasks[k].btn = i /\ j < k
    /\ tasks[j].kind # tasks[k].kind
    /\ tasks[j].took = i /\ tasks[j].gw > 0
    /\ tasks[k].took = 0 /\ LastReply(k) = "couldnt_find_original_message"

\* The step that takes in the principal's click on approve.
ApproveArrives ==
  /\ Len(tasks') = Len(tasks) + 1
  /\ tasks'[Len(tasks')].kind = "approve_edit"
  /\ tasks'[Len(tasks')].user = AuthorizedUserId

\* C27: an approve carries the PendingEdit it found in the slot; when its
\* write succeeds, the file of that PendingEdit's day has exactly the
\* PendingEdit's text, every other file is as it was, and the reply is the
\* success message for that day.
C27_ApprovedEditWrittenVerbatim ==
  [][/\ (ApproveArrives /\ MapHas(pendingEdits, AuthorizedUserId)) =>
          tasks'[Len(tasks')].edit = Some(pendingEdits[AuthorizedUserId])
     /\ \A i \in Tasks :
          (tasks[i].pc = "edit_write" /\ tasks'[i].wrote # None) =>
            LET edit == Get(tasks[i].edit)
            IN /\ DOMAIN files' = DOMAIN files
               /\ files'[edit.dateSlug] = edit.updatedContent
               /\ \A d \in DOMAIN files \ {edit.dateSlug} : files'[d] = files[d]
               /\ tasks'[i].replies =
                    Append(tasks[i].replies, Reply("edit_applied", edit.dateSlug))]_vars

\* An edit of yesterday's file was approved and written: yesterday's file is
\* the edit's text, trailing blank included, and today's file is untouched.
C27_Witness ==
  \E i \in Tasks :
    /\ tasks[i].kind = "approve_edit" /\ tasks[i].wrote # None
    /\ LastReply(i) = "edit_applied"
    /\ files["d1"] = EditYesterday.updatedContent
    /\ files["d0"] = <<"hdr_d0", "NL2", "old0", "NL">>

\* The step that takes in a message of the principal whose text is a fixed
\* command.
CommandArrives ==
  LET t == tasks'[Len(tasks')]
  IN /\ Len(tasks') = Len(tasks) + 1
     /\ t.kind = "message" /\ t.user = AuthorizedUserId
     /\ \/ t.pc = "craft"
        \/ /\ t.text # <<>>
           /\ \/ Head(t.text) \in {"show today", "today", "help me write"}
              \/ t.text = <<"help">>

\* C28: a fixed command that arrives while a ConversationContext is stored
\* is handled as the command: no classifier call is made or pending, no
\* context is taken, the context stays as it is, and the run is never a
\* follow-up or an instruction run.
C28_CommandsBeforeConversation ==
  [][/\ (CommandArrives /\ MapHas(conversationContext, AuthorizedUserId)) =>
          /\ tasks'[Len(tasks')].pc \in {"show_read", "craft", "done"}
          /\ tasks'[Len(tasks')].took = 0
          /\ tasks'[Len(tasks')].ctx = None
          /\ tasks'[Len(tasks')].gw = (IF tasks'[Len(tasks')].pc = "craft" THEN 1 ELSE 0)
          /\ conversationContext' = conversationContext
     /\ \A i \in 1..Len(tasks') :
          IsCommandRun(tasks'[i]) =>
            /\ tasks'[i].intent = "" /\ tasks'[i].took = 0 /\ tasks'[i].asked = None
            /\ tasks'[i].pc \in {"show_read", "craft", "done"}]_vars

\* A show-today command came after a clarification question was asked, and
\* the message after it was still taken as the answer to that question.
C28_Witness ==
  \E i, j, k \in Tasks :
    /\ i < j /\ j < k
    /\ tasks[i].replies # <<>> /\ LastReply(i) = "question"
    /\ IsCommandRun(tasks[j]) /\ tasks[j].shown # None
    /\ tasks[k].kind = "message" /\ tasks[k].took = i

\* Run t of the instruction flow for a message that carries an image.
IsImageInstruction(t) ==
  /\ t.kind = "message" /\ t.intent = "instruction"
  /\ extractImageFiles(t.attach) # <<>>

\* C29: an instruction run for a message with an image starts with the
\* upload; it reads no file and gives the edit gateway nothing before an
\* image is uploaded, and the gateway call carries the first uploaded path;
\* when the upload yields no image the run says so and ends, without a store
\* read, without an edit-gateway call, without a prompt and with the maps as
\* they were.
C29_UploadBeforeFetch ==
  [][\A i \in Tasks :
       IsImageInstruction(tasks'[i]) =>
         /\ tasks[i].pc = "classify" =>
              /\ tasks'[i].pc = "instr_img" /\ tasks'[i].sr = 0 /\ tasks'[i].gw = 1
         /\ (tasks'[i].sr > 0 \/ IsSome(tasks'[i].asked)) => tasks'[i].uploaded # <<>>
         /\ (tasks[i].pc = "fetch" /\ tasks'[i].pc = "exec") =>
              /\ tasks'[i].newImagePath = Some(tasks'[i].uploaded[1])
              /\ tasks'[i].gw = 2
         /\ (tasks[i].pc = "instr_img" /\ tasks'[i].pc = "done") =>
              /\ tasks'[i].uploaded = <<>>
              /\ tasks'[i].replies =
                   Append(tasks[i].replies, Reply("couldnt_process_image", ""))
              /\ tasks'[i].sr = 0 /\ tasks'[i].gw = 1 /\ tasks'[i].asked = None
              /\ ~tasks'[i].made
              /\ maps' = maps /\ files' = files]_vars

\* One instruction with an image reached the edit gateway with its uploaded
\* path and got an edit proposed; another's upload yielded nothing and it
\* stopped there.
C29_Witness ==
  \E i, j \in Tasks :
    /\ IsImageInstruction(tasks[i]) /\ tasks[i].uploaded # <<>>
    /\ tasks[i].made /\ Names(pendingEdits, i)
    /\ IsImageInstruction(tasks[j]) /\ Done(j)
    /\ LastReply(j) = "couldnt_process_image" /\ tasks[j].sr = 0

\* None of the dated files of the recent window exists.
WindowEmpty == \A k \in 1..Len(RecentSlugs) : RecentSlugs[k] \notin DOMAIN files

\* Run i got the answer to the last read of its recent window.
WindowRead(i) ==
  /\ i \in Tasks
  /\ tasks[i].pc = "fetch" /\ tasks'[i].pc # "fetch"
  /\ tasks'[i].threw = tasks[i].threw

Landing == {i \in Tasks : tasks[i].wrote = None /\ tasks'[i].wrote # None}

\* Every separator of the file body stands alone between two entries.
WellSeparated(content) ==
  \A k \in 1..Len(content) :
    content[k] = "---" =>
      /\ k > 3 /\ k + 2 <= Len(content)
      /\ content[k - 1] = "NL2" /\ content[k + 1] = "NL2"
      /\ ~IsWs(content[k - 2]) /\ content[k - 2] # "---"
      /\ ~IsWs(content[k + 2]) /\ content[k + 2] # "---"

\* C31: with the day's file absent at first, every publish that succeeds
\* either creates the file as the dated header and its entry and says
\* "Created", or leaves what the file holds in place, puts one separator and
\* its entry after it and says "Added to"; so the file is the header and the
\* entries in publish order, one separator between two of them, and only
\* the first publish reports the file as created.
C31_HeaderThenEntriesInOrder ==
  [][/\ \A i \in Landing :
          LET entry == Get(tasks'[i].wrote).entry
              said == tasks'[i].replies[Len(tasks[i].replies) + 1]
          IN IF ~MapHas(files, TodaySlug)
             THEN /\ files'[TodaySlug] = <<"hdr_d0", "NL2">> \o entry \o <<"NL">>
                  /\ said = Reply("published", "Created")
             ELSE /\ files'[TodaySlug] =
                       SubSeq(files[TodaySlug], 1, Len(files[TodaySlug]) - 1)
                         \o <<"NL2", "---", "NL2">> \o entry \o <<"NL">>
                  /\ said = Reply("published", "Added to")
     /\ (Landing = {} /\ MapHas(files, TodaySlug)) => files'[TodaySlug] = files[TodaySlug]
     /\ MapHas(files', TodaySlug) =>
          /\ Head(files'[TodaySlug]) = "hdr_d0"
          /\ files'[TodaySlug][Len(files'[TodaySlug])] = "NL"
          /\ ~IsWs(files'[TodaySlug][Len(files'[TodaySlug]) - 1])
          /\ WellSeparated(files'[TodaySlug])
          /\ Separators(files'[TodaySlug]) + 1 = Cardinality(Published')
          /\ Cardinality({i \in Published' :
                            Reply("published", "Created") \in
                              {tasks'[i].replies[k] : k \in 1..Len(tasks'[i].replies)}}) = 1]_vars

\* Three publishes succeeded one after the other, the second with another
\* entry than the first: the file holds the three entries in that order.
C31_Witness ==
  \E i, j, k \in Published :
    /\ i # j /\ j # k /\ i # k
    /\ Get(tasks[i].wrote).entry # Get(tasks[j].wrote).entry
    /\ files[TodaySlug] =
         <<"hdr_d0", "NL2">> \o Get(tasks[i].wrote).entry
           \o <<"NL2", "---", "NL2">> \o Get(tasks[j].wrote).entry
           \o <<"NL2", "---", "NL2">> \o Get(tasks[k].wrote).entry \o <<"NL">>

\* The image step of run i returns in this step.
TransfersReturn(i) == i \in Tasks /\ tasks[i].xfer = <<>> /\ tasks'[i].xfer # <<>>

\* The images of a run whose download and upload both went through.
Transferred(xfer) == {k \in 1..Len(xfer) : xfer[k] = "ok"}

\* C32: when the image step of a run returns, the embeds it hands to the
\* flow are those of the attachments whose download and upload both
\* succeeded, each once and in the attachments' order, whatever became of
\* the others; these are the images the store received; nothing was raised:
\* the flow goes on with the list (its entry holds every embed, or the edit
\* gateway gets the first one) and gives no failure reply in that step.
C32_FailedTransferSkipped ==
  [][\A i \in Tasks :
       TransfersReturn(i) =>
         LET xfer == tasks'[i].xfer
             up == tasks'[i].uploaded
             ts == tasks[i].ts
             S == Transferred(xfer)
             new == {tasks'[i].replies[k][1] :
                       k \in (Len(tasks[i].replies) + 1)..Len(tasks'[i].replies)}
         IN /\ Len(xfer) = Len(extractImageFiles(tasks[i].attach))
            /\ Len(up) = Cardinality(S)
            /\ \A k \in S : \E a \in 1..Len(up) : up[a] = ImgName(ts, k)
            /\ \A a, b \in 1..Len(up) :
                 a < b => \E ka, kb \in S :
                            ka < kb /\ up[a] = ImgName(ts, ka) /\ up[b] = ImgName(ts, kb)
            /\ images' = images \cup {up[a] : a \in 1..Len(up)}
            /\ tasks'[i].threw = tasks[i].threw
            /\ new \cap {"something_went_wrong", "failed_to_publish"} = {}
            /\ tasks'[i].pc = "add_read" =>
                 \A a \in 1..Len(up) :
                   \E k \in 1..Len(tasks'[i].text) : tasks'[i].text[k] = up[a]
            /\ (tasks'[i].pc = "fetch" /\ up # <<>>) =>
                 tasks'[i].newImagePath = Some(up[1])]_vars

\* Of one message's two images the upload of the first failed and of
\* another's the download of the second: each was published with the embed
\* of its other image alone.
C32_Witness ==
  \E i, j \in Published :
    /\ tasks[i].xfer = <<"upload_failed", "ok">>
    /\ tasks[i].uploaded = <<ImgName(0, 2)>>
    /\ HasRun(Get(tasks[i].wrote).entry, <<ImgName(0, 2)>>)
    /\ tasks[j].xfer = <<"ok", "download_failed">>
    /\ tasks[j].uploaded = <<ImgName(0, 1)>>
    /\ HasRun(Get(tasks[j].wrote).entry, <<ImgName(0, 1)>>)

\* The activations of the buttons of run p's proposal message that committed
\* an entry.
CommitsFrom(p) ==
  {c \in Tasks : /\ tasks[c].kind \in {"accept_suggestion", "publish_original",
                                       "reject_suggestion"}
                 /\ tasks[c].user = AuthorizedUserId
                 /\ tasks[c].btn = p /\ tasks[c].wrote # None}

\* C33: whatever the order of the accept, publish-original and reject
\* activations on one proposal message, at most one of them commits an entry.
C33_OneCommitPerProposal ==
  \A p \in Proposers : Cardinality(CommitsFrom(p)) <= 1

\* The image embeds of an entry.
EmbedsIn(entry) ==
  {entry[k] : k \in {x \in 1..Len(entry) :
                       \E r \in 1..Len(ImgNames) : \E c \in 1..Len(ImgNames[r]) :
                         entry[x] = ImgNames[r][c]}}

\* C34: the entry a publish-original activation commits holds, with the
\* original text of its button, only embeds of images that were uploaded
\* for the message that button's prompt was posted for.
C34_OriginalWithOwnImages ==
  \A o \in Originals :
    tasks[o].wrote # None =>
      EmbedsIn(Get(tasks[o].wrote).entry) \subseteq
        {tasks[tasks[o].btn].uploaded[k] : k \in 1..Len(tasks[tasks[o].btn].uploaded)}

\* The runs of messages the classifier labelled instruction or ambiguous.
NotMoments ==
  {i \in Tasks : tasks[i].kind = "message" /\ tasks[i].intent \in {"instruction", "unclear"}}

\* C35: the run of a message the classifier labelled instruction or
\* ambiguous never waits for a review, never gets one and never commits an
\* entry, whatever fails in it afterwards.
C35_InstructionNeverPublished ==
  \A i \in NotMoments :
    /\ tasks[i].pc \notin {"moment", "add_read", "add_write"}
    /\ tasks[i].got = None
    /\ tasks[i].wrote = None /\ tasks[i].sw = 0

\* C36: a context is taken by at most one message.  The message that finds
\* it live takes it and removes it in the step it arrives in; a message that
\* arrives when there is none is classified from scratch; no two follow-up
\* runs took the same context, and a context that was taken is never in the
\* map again (a follow-up that asks again stores a new one).
C36_ContextTakenOnce ==
  [][/\ PrincipalTextArrives =>
          LET t == tasks'[Len(tasks')]
          IN /\ t.took # 0 =>
                  /\ Names(conversationContext, t.took)
                  /\ ~MapHas(conversationContext', AuthorizedUserId)
             /\ ~MapHas(conversationContext, AuthorizedUserId) =>
                  /\ t.took = 0 /\ t.pc = "classify" /\ t.ctx = None
                  /\ ~MapHas(conversationContext', AuthorizedUserId)
     /\ \A i, j \in FollowUps' : tasks'[i].took = tasks'[j].took => i = j
     /\ \A i \in FollowUps' : ~Names(conversationContext', tasks'[i].took)]_vars

\* Two messages after one clarification question: the first took the context
\* and is still at work, the second came in meanwhile and is with the
\* classifier.
C36_Witness ==
  \E i \in FollowUps : \E j \in Tasks :
    /\ i < j
    /\ tasks[i].pc \in {"fetch", "exec"}
    /\ tasks[j].kind = "message" /\ tasks[j].took = 0 /\ tasks[j].pc = "classify"
    /\ \A k \in FollowUps : k = i

\* The kind of the event this step takes in, if it takes one in.
NewKind == IF Len(tasks') > Len(tasks) THEN tasks'[Len(tasks')].kind ELSE ""

\* The awaits the runs that move in this step were suspended at.
Stepping == {tasks[i].pc : i \in {x \in Tasks : tasks'[x] # tasks[x]}}

\* C37: a step changes the Proposal slot only when it is an accept, reject
\* or publish-original activation or a review or craft returning; the
\* UnclearMessage slot only when it is a treat-as activation or the
\* classifier returning; the PendingEdit slot only when it is an approve or
\* reject-edit activation or the edit gateway returning; the
\* ConversationContext slot only when the edit gateway returns or a message
\* arrives that takes the context or finds it expired.
C37_SlotsChangedByOwnFlows ==
  [][/\ pendingProposals' # pendingProposals =>
          \/ NewKind \in {"accept_suggestion", "reject_suggestion", "publish_original"}
          \/ (NewKind = "" /\ Stepping # {} /\ Stepping \subseteq {"moment", "craft"})
     /\ pendingUnclear' # pendingUnclear =>
          \/ NewKind \in {"treat_as_moment", "treat_as_instruction"}
          \/ (NewKind = "" /\ Stepping = {"classify"})
     /\ pendingEdits' # pendingEdits =>
          \/ NewKind \in {"approve_edit", "reject_edit"}
          \/ (NewKind = "" /\ Stepping = {"exec"})
     /\ conversationContext' # conversationContext =>
          \/ (NewKind = "" /\ Stepping = {"exec"})
          \/ /\ NewKind = "message"
             /\ ~MapHas(conversationContext', AuthorizedUserId)
             /\ \/ tasks'[Len(tasks')].took = conversationContext[AuthorizedUserId].id
                \/ ContextAge > ExpiryMinutes]_vars

\* An edit was approved and written while a Proposal, made before it, was
\* waiting: the Proposal is still there.
C37_Witness ==
  \E p \in Proposers : \E a \in Approvals :
    /\ p < tasks[a].took
    /\ tasks[a].wrote # None
    /\ Names(pendingProposals, p)

\* Run i is over and its last reply is not a progress note.
TerminalReply(i) ==
  /\ i \in Tasks
  /\ tasks[i].pc = "done" /\ tasks[i].replies # <<>>
  /\ LastReply(i) # "working"

\* A call of run i never returned.
Hung(i) == i \in Tasks /\ tasks[i].pc = "hung"

\* Run i handles an event of the principal: a click, or a message with text
\* or an image, whatever its subtype.
OfPrincipal(i) ==
  /\ i \in Tasks /\ tasks[i].user = AuthorizedUserId
  /\ \/ tasks[i].kind # "message"
     \/ tasks[i].text # <<>> \/ extractImageFiles(tasks[i].attach) # <<>>
     \/ tasks[i].replies # <<>>

C39_DistinctImagePaths ==
  \A i, j \in Tasks :
    \A a \in 1..Len(tasks[i].uploaded) : \A b \in 1..Len(tasks[j].uploaded) :
      (i # j \/ a # b) => tasks[i].uploaded[a] # tasks[j].uploaded[b]

=============================================================================
